---- MODULE Spec2Model ----
(***************************************************************************)
(* Hearth recipe scraper: the URL-keyed scraping-job state machine of      *)
(* server/src/controllers/scrapingController.ts.                           *)
(*                                                                         *)
(* Every request handler is an async function: each `await` on a database  *)
(* call is a point where other handlers and pipelines may run.  A handler  *)
(* is therefore a small process whose pc names what it does next; one      *)
(* action is one database call together with the synchronous code around   *)
(* it (a request's arrival is taken with its first read, the launch of a   *)
(* pipeline with the response that follows it).                            *)
(*                                                                         *)
(* Each database call is atomic.  url is a unique key of ScrapedUrl, as    *)
(* findUnique({ where: { url } }) requires, and upsert is the atomic       *)
(* create-or-update on that key.  Job rows are never deleted.              *)
(***************************************************************************)
EXTENDS Integers, Sequences, FiniteSets, Bags, TLC

\* ------------------------------------------------------------------ bounds
MaxRequests == 2          \* requests received in one behaviour
MaxBatch == 10            \* scrapingController.ts:325, urls.length > 10

URLs == {"u1", "u2"}      \* the URL strings clients submit
NonString == "#nonstring" \* a batch entry / body field that is not a string
EmptyString == ""         \* falsy url of a submit body

NoMsg == "#null"          \* errorMessage column is NULL
MsgNoData == "Could not extract recipe data"
MsgScrape == "scrape threw"
MsgPersist == "createRecipe threw"

\* ------------------------------------------------------------------- state
VARIABLES
    jobs,          \* table ScrapedUrl: sequence of rows, row i has id i
    recipes,       \* table Recipe: set of rows [id, sourceUrl]
    nextRecipeId,  \* ids handed out by recipe.create
    nreq,          \* requests received so far
    reqs,          \* bag of request handlers waiting on an await
    answered,      \* the request answered last, with its response
    pipes,         \* bag of extraction pipelines in flight
    scrape,        \* the run of scrapeRecipe that is followed stage by stage
    browser,       \* RecipeScrapingService.browser and the pages it opened
    call,          \* a call of a text helper: its input and what it returned
    client         \* the importer's poller of one job's status

vars == <<jobs, recipes, nextRecipeId, nreq, reqs, answered, pipes,
          scrape, browser, call, client>>

\* the scraping services and the client, which the controller's own steps
\* leave alone
serviceVars == <<scrape, browser, call, client>>

\* ------------------------------------------------------------ table access
NoJob == [id |-> 0, url |-> EmptyString, status |-> "none", retryCount |-> 0,
          recipeId |-> 0, errorMessage |-> NoMsg]

\* prisma.scrapedUrl.findUnique({ where: { url } })
FindByUrl(js, u) ==
    IF \E i \in 1..Len(js) : js[i].url = u
    THEN js[CHOOSE i \in 1..Len(js) : js[i].url = u]
    ELSE NoJob

\* prisma.scrapedUrl.findUnique({ where: { id } })
FindById(js, id) == IF id \in 1..Len(js) THEN js[id] ELSE NoJob

\* the columns of a row that the handlers read after a findUnique
Snapshot(j) == [id |-> j.id, url |-> j.url, status |-> j.status,
                recipeId |-> j.recipeId]

\* prisma.recipe.findUnique({ where: { id } }) returns a row
RecipeExists(rs, id) == \E r \in rs : r.id = id

\* a create that starts the counter at one
NewJobCountOne(js, u) ==
    [id |-> Len(js) + 1, url |-> u, status |-> "processing", retryCount |-> 1,
     recipeId |-> 0, errorMessage |-> NoMsg]

NewJob(js, u) ==
    [id |-> Len(js) + 1, url |-> u, status |-> "processing", retryCount |-> 0,
     recipeId |-> 0, errorMessage |-> NoMsg]
\* an update that starts the new attempt with a clean row
ReprocessClearsMessage(j) ==
    [j EXCEPT !.status = "processing", !.retryCount = @ + 1,
              !.errorMessage = NoMsg]

\* an update that forgets the increment
ReprocessNoIncrement(j) == [j EXCEPT !.status = "processing"]

\* update: { status: 'processing', retryCount: { increment: 1 } }
Reprocess(j) == [j EXCEPT !.status = "processing", !.retryCount = @ + 1]

\* a create without the unique constraint on url
UpsertInsertOnly(js, u) ==
    Append(js, [id |-> Len(js) + 1, url |-> u, status |-> "processing",
                retryCount |-> 0, recipeId |-> 0, errorMessage |-> NoMsg])

\* prisma.scrapedUrl.upsert({ where: { url }, update, create })
Upsert(js, u) ==
    IF \E i \in 1..Len(js) : js[i].url = u
    THEN LET i == CHOOSE k \in 1..Len(js) : js[k].url = u
         IN  [js EXCEPT ![i] = Reprocess(js[i])]
    ELSE Append(js, NewJob(js, u))

\* the row the upsert returns
UpsertedId(js, u) == FindByUrl(Upsert(js, u), u).id

\* ---------------------------------------------------------------- requests
NoResp == [code |-> 0, status |-> "none", jobId |-> 0, jobIds |-> <<>>,
           recipe |-> 0, cached |-> FALSE, message |-> NoMsg, error |-> NoMsg]

\* res.json({ status, jobId, message })
Resp(status, jobId, message) ==
    [NoResp EXCEPT !.code = 200, !.status = status, !.jobId = jobId,
                   !.message = message]

\* res.json({ status: 'success', recipe, cached: true })
CachedResp(recipeId) ==
    [NoResp EXCEPT !.code = 200, !.status = "success", !.recipe = recipeId,
                   !.cached = TRUE]

MsgBeingScraped == "Recipe is currently being scraped"
MsgStarted == "Recipe scraping started. Check status endpoint for progress."
MsgRetryStarted == "Scraping retry started"
MsgBulkStarted == "Started scraping recipes"

ErrResp(code, msg) == [NoResp EXCEPT !.code = code, !.error = msg]

NewReq(op) ==
    [op |-> op, url |-> EmptyString, jid |-> 0, isArray |-> FALSE, urls |-> <<>>,
     pc |-> "start", existing |-> Snapshot(NoJob), job |-> 0, i |-> 0,
     ids |-> <<>>]

\* an answered request: what was asked and what res.json sent
Answer(r, resp) ==
    [op |-> r.op, url |-> r.url, jid |-> r.jid, isArray |-> r.isArray,
     urls |-> r.urls, resp |-> resp]

NoAnswer == Answer([op |-> "none", url |-> EmptyString, jid |-> 0,
                    isArray |-> FALSE, urls |-> <<>>], NoResp)

One(x) == SetToBag({x})

\* a new request is either answered at once or left waiting on its first await
Receive(r, atOnce, resp) ==
    /\ nreq < MaxRequests
    /\ nreq' = nreq + 1
    /\ IF atOnce
       THEN answered' = Answer(r, resp) /\ reqs' = reqs
       ELSE reqs' = reqs (+) One(r) /\ answered' = answered
    /\ UNCHANGED serviceVars

Waiting(r, op, pc) == r \in BagToSet(reqs) /\ r.op = op /\ r.pc = pc

Continue(r, r2) ==
    /\ reqs' = (reqs (-) One(r)) (+) One(r2)
    /\ UNCHANGED <<nreq, answered>>
    /\ UNCHANGED serviceVars

Reply(r, resp) ==
    /\ reqs' = reqs (-) One(r)
    /\ answered' = Answer(r, resp)
    /\ UNCHANGED nreq
    /\ UNCHANGED serviceVars

\* ---------------------------------------------------------------- pipeline
\* scrapingService.scrapeRecipe(url, id).then(...).catch(...)
NewPipe(u, id) ==
    [url |-> u, jobId |-> id, pc |-> "scrape", status |-> "none",
     recipeId |-> 0, msg |-> NoMsg]

\* a launch that starts the extraction twice
LaunchTwice(ps, u, id) == (ps (+) One(NewPipe(u, id))) (+) One(NewPipe(u, id))

Launch(ps, u, id) == ps (+) One(NewPipe(u, id))

InFlight(u) ==
    BagCardinality([p \in {q \in BagToSet(pipes) : q.url = u} |-> pipes[p]])

\* ------------------------------------------------------------------- Init
\* no candidate: what a strategy returns as null
NoCandidate == [some |-> FALSE, title |-> FALSE, ingredients |-> 0, instructions |-> 0]

\* no run of scrapeRecipe is followed
NoScrape ==
    [url |-> "", pc |-> "idle", k |-> 0, fetch |-> "none", trace |-> <<>>,
     last |-> "none", candidate |-> NoCandidate, result |-> "pending",
     data |-> NoCandidate]

\* private browser: Browser | null = null, and no page opened
NoBrowser ==
    [up |-> FALSE, launches |-> 0, opened |-> 0, open |-> 0,
     instance |-> 0,            \* this.browser: the instance it refers to, 0 for null
     alive |-> {},              \* the instances launched and not closed
     calls |-> <<>>,            \* the calls of initBrowser in progress, by caller
     closes |-> 0,              \* calls of closeBrowser so far
     closing |-> 0]             \* the instance a closeBrowser awaits the close of

\* no text helper is called
NoCall ==
    [fn |-> "none", text |-> <<>>, context |-> FALSE, done |-> FALSE,
     minutes |-> [defined |-> FALSE, value |-> 0], rejected |-> FALSE,
     field |-> "none", doc |-> <<>>, out |-> <<>>]

\* no poller runs
NoClient ==
    [pc |-> "idle", jobId |-> 0, attempts |-> 0, requests |-> 0, last |-> "none",
     row |-> [id |-> 0, url |-> "", status |-> "none", recipeId |-> 0]]

Init ==
    /\ jobs = <<>>
    /\ recipes = {}
    /\ nextRecipeId = 1
    /\ nreq = 0
    /\ reqs = EmptyBag
    /\ answered = NoAnswer
    /\ pipes = EmptyBag
    /\ scrape = NoScrape
    /\ browser = NoBrowser
    /\ call = NoCall
    /\ client = NoClient

\* ---------------------------------------------------------- scrapeRecipe
\* POST /scrape, lines 12-21: validate the body, then findUnique by url
SubmitInputs == URLs \cup {EmptyString}

ValidUrl(u) == u # EmptyString /\ u # NonString

SubmitStart(u) ==
    /\ Receive([NewReq("submit") EXCEPT !.url = u, !.pc = "gotJob",
                  !.existing = Snapshot(FindByUrl(jobs, u))],
               ~ValidUrl(u), ErrResp(400, "Valid URL is required"))
    /\ UNCHANGED <<jobs, recipes, nextRecipeId, pipes>>

\* a handler that never answers from the store
SubmitDecisionNoCache(e) ==
    IF e.id # 0 /\ e.status = "processing" THEN "processing" ELSE "upsert"

\* a handler that upserts over a job that is still processing
SubmitDecisionNoProcessing(e) ==
    IF e.id # 0 /\ e.status = "success" /\ e.recipeId # 0 THEN "recipe"
    ELSE "upsert"

\* lines 23-72: which way the handler goes on the row it read
SubmitDecision(e) ==
    IF e.id # 0
    THEN IF e.status = "success" /\ e.recipeId # 0 THEN "recipe"
         ELSE IF e.status = "processing" THEN "processing"
         ELSE "upsert"
    ELSE "upsert"

\* a handler that answers from the job row without looking the recipe up
SubmitCachedStale(r) ==
    /\ Waiting(r, "submit", "gotJob")
    /\ SubmitDecision(r.existing) = "recipe"
    /\ Reply(r, CachedResp(r.existing.recipeId))
    /\ UNCHANGED <<jobs, recipes, nextRecipeId, pipes>>

\* lines 26-64: recipe.findUnique; a hit is answered from the store
SubmitCached(r) ==
    /\ Waiting(r, "submit", "gotJob")
    /\ SubmitDecision(r.existing) = "recipe"
    /\ IF RecipeExists(recipes, r.existing.recipeId)
       THEN Reply(r, CachedResp(r.existing.recipeId))
       ELSE Continue(r, [r EXCEPT !.pc = "upsert"])
    /\ UNCHANGED <<jobs, recipes, nextRecipeId, pipes>>

\* a handler that starts the extraction again for a job found processing
SubmitProcessingRelaunch(r) ==
    /\ Waiting(r, "submit", "gotJob")
    /\ SubmitDecision(r.existing) = "processing"
    /\ pipes' = Launch(pipes, r.url, r.existing.id)
    /\ Reply(r, Resp("processing", r.existing.id, MsgBeingScraped))
    /\ UNCHANGED <<jobs, recipes, nextRecipeId>>

\* lines 65-71
SubmitProcessing(r) ==
    /\ Waiting(r, "submit", "gotJob")
    /\ SubmitDecision(r.existing) = "processing"
    /\ Reply(r, Resp("processing", r.existing.id, MsgBeingScraped))
    /\ UNCHANGED <<jobs, recipes, nextRecipeId, pipes>>

\* lines 75-86: the upsert, reached directly or after a missing recipe
SubmitUpsert(r) ==
    /\ \/ Waiting(r, "submit", "gotJob") /\ SubmitDecision(r.existing) = "upsert"
       \/ Waiting(r, "submit", "upsert")
    /\ jobs' = Upsert(jobs, r.url)
    /\ Continue(r, [r EXCEPT !.pc = "launch", !.job = UpsertedId(jobs, r.url)])
    /\ UNCHANGED <<recipes, nextRecipeId, pipes>>

\* lines 89-128: start the pipeline, answer with the job id
SubmitLaunch(r) ==
    /\ Waiting(r, "submit", "launch")
    /\ pipes' = Launch(pipes, r.url, r.job)
    /\ Reply(r, Resp("processing", r.job, MsgStarted))
    /\ UNCHANGED <<jobs, recipes, nextRecipeId>>

\* ------------------------------------------------------- retryScrapingJob
RetryIds == 1..Cardinality(URLs)

\* lines 246-250
RetryStart(id) ==
    /\ Receive([NewReq("retry") EXCEPT !.jid = id, !.pc = "gotJob",
                  !.existing = Snapshot(FindById(jobs, id))],
               FALSE, NoResp)
    /\ UNCHANGED <<jobs, recipes, nextRecipeId, pipes>>

\* a retry without the processing guard
RetryDecisionNoGuard(e) == IF e.id = 0 THEN "notFound" ELSE "update"

\* lines 252-258
RetryDecision(e) ==
    IF e.id = 0 THEN "notFound"
    ELSE IF e.status = "processing" THEN "reject"
    ELSE "update"

RetryReject(r) ==
    /\ Waiting(r, "retry", "gotJob")
    /\ RetryDecision(r.existing) # "update"
    /\ Reply(r, IF RetryDecision(r.existing) = "notFound"
                THEN ErrResp(404, "Scraping job not found")
                ELSE ErrResp(400, "Job is already processing"))
    /\ UNCHANGED <<jobs, recipes, nextRecipeId, pipes>>

\* lines 261-268: scrapedUrl.update by id
RetryUpdate(r) ==
    /\ Waiting(r, "retry", "gotJob")
    /\ RetryDecision(r.existing) = "update"
    /\ jobs' = [jobs EXCEPT ![r.jid] = Reprocess(@)]
    /\ Continue(r, [r EXCEPT !.pc = "launch", !.job = r.existing.id,
                             !.url = r.existing.url])
    /\ UNCHANGED <<recipes, nextRecipeId, pipes>>

\* lines 271-310
RetryLaunch(r) ==
    /\ Waiting(r, "retry", "launch")
    /\ pipes' = Launch(pipes, r.existing.url, r.existing.id)
    /\ Reply(r, Resp("processing", r.existing.id, MsgRetryStarted))
    /\ UNCHANGED <<jobs, recipes, nextRecipeId>>

\* ------------------------------------------------------ bulkScrapeRecipes
Body(isArray, urls) == [isArray |-> isArray, urls |-> urls]

Repeat(u, n) == [k \in 1..n |-> u]

\* request bodies of POST /bulk tried under Spec
BulkBodies ==
    { Body(FALSE, <<>>), Body(TRUE, <<>>),
      Body(TRUE, <<"u1">>), Body(TRUE, <<"u1", "u1">>),
      Body(TRUE, <<NonString, "u2">>), Body(TRUE, <<NonString>>),
      Body(TRUE, Repeat("u1", MaxBatch + 1)) }

\* a limit check that is off by one
BulkValidateOffByOne(b) ==
    IF ~b.isArray \/ Len(b.urls) = 0 THEN "notArray"
    ELSE IF Len(b.urls) >= MaxBatch THEN "tooMany"
    ELSE "ok"

\* lines 321-327
BulkValidate(b) ==
    IF ~b.isArray \/ Len(b.urls) = 0 THEN "notArray"
    ELSE IF Len(b.urls) > MaxBatch THEN "tooMany"
    ELSE "ok"

IsString(e) == e # NonString

\* lines 331-334: the loop skips entries that are not strings
NextString(urls, k) ==
    IF \E n \in k..Len(urls) : IsString(urls[n])
    THEN CHOOSE n \in k..Len(urls) :
           IsString(urls[n]) /\ \A m \in k..(n - 1) : ~IsString(urls[m])
    ELSE Len(urls) + 1

\* lines 388-392
BulkResp(ids) == [Resp("processing", 0, MsgBulkStarted) EXCEPT !.jobIds = ids]

\* lines 319-334
BulkStart(b) ==
    /\ LET r == [NewReq("bulk") EXCEPT !.isArray = b.isArray, !.urls = b.urls]
       IN  CASE BulkValidate(b) = "notArray" ->
                  Receive(r, TRUE, ErrResp(400, "Array of URLs is required"))
             [] BulkValidate(b) = "tooMany" ->
                  Receive(r, TRUE, ErrResp(400, "Maximum 10 URLs allowed per batch"))
             [] NextString(b.urls, 1) > Len(b.urls) ->
                  Receive(r, TRUE, BulkResp(<<>>))
             [] OTHER ->
                  Receive([r EXCEPT !.pc = "upsert", !.i = NextString(b.urls, 1)],
                          FALSE, NoResp)
    /\ UNCHANGED <<jobs, recipes, nextRecipeId, pipes>>

\* lines 336-347
BulkUpsert(r) ==
    /\ Waiting(r, "bulk", "upsert")
    /\ jobs' = Upsert(jobs, r.urls[r.i])
    /\ Continue(r, [r EXCEPT !.pc = "launch",
                             !.job = UpsertedId(jobs, r.urls[r.i])])
    /\ UNCHANGED <<recipes, nextRecipeId, pipes>>

\* lines 349-386, then the next iteration or lines 388-392
BulkLaunch(r) ==
    /\ Waiting(r, "bulk", "launch")
    /\ pipes' = Launch(pipes, r.urls[r.i], r.job)
    /\ IF NextString(r.urls, r.i + 1) > Len(r.urls)
       THEN Reply(r, BulkResp(Append(r.ids, r.job)))
       ELSE Continue(r, [r EXCEPT !.pc = "upsert", !.job = 0,
                                  !.i = NextString(r.urls, r.i + 1),
                                  !.ids = Append(r.ids, r.job)])
    /\ UNCHANGED <<jobs, recipes, nextRecipeId>>

\* ------------------------------------------- the pipeline's continuation
\* How scrapeRecipe settles: it resolves with recipe data or with null, or it
\* rejects.  The settling itself touches no shared state, so it is taken
\* together with the database call that the continuation then makes.
Outcomes == {"data", "null", "throw"}

Step(p, q) == (pipes (-) One(p)) (+) One(q)

TerminalResetsCount(j, status, recipeId, msg) ==
    IF status = "success"
    THEN [j EXCEPT !.status = "success", !.recipeId = recipeId, !.retryCount = 0]
    ELSE [j EXCEPT !.status = "failed", !.errorMessage = msg, !.retryCount = 0]

\* the terminal scrapedUrl.update of .then / .catch
Terminal(j, status, recipeId, msg) ==
    IF status = "success"
    THEN [j EXCEPT !.status = "success", !.recipeId = recipeId]
    ELSE [j EXCEPT !.status = "failed", !.errorMessage = msg]

FailureMsgGeneric(o) == MsgScrape

\* the message that the failing branch writes
FailureMsg(o) == IF o = "null" THEN MsgNoData ELSE MsgScrape

\* lines 101-121: no recipe data, or scrapeRecipe rejected
ScrapeFailed(p, o) ==
    /\ p \in BagToSet(pipes) /\ p.pc = "scrape"
    /\ o # "data"
    /\ jobs' = [jobs EXCEPT ![p.jobId] = Terminal(@, "failed", 0, FailureMsg(o))]
    /\ pipes' = pipes (-) One(p)
    /\ UNCHANGED <<recipes, nextRecipeId, nreq, reqs, answered>>
    /\ UNCHANGED serviceVars

\* a createRecipe that returns the recipe already stored for the URL
CreateDoneReuse(p, ok) ==
    /\ p \in BagToSet(pipes) /\ p.pc = "scrape"
    /\ IF ok
       THEN IF \E r \in recipes : r.sourceUrl = p.url
            THEN /\ pipes' = Step(p, [p EXCEPT !.pc = "update", !.status = "success",
                          !.recipeId = (CHOOSE r \in recipes : r.sourceUrl = p.url).id])
                 /\ UNCHANGED <<recipes, nextRecipeId>>
            ELSE /\ recipes' = recipes \cup {[id |-> nextRecipeId, sourceUrl |-> p.url]}
                 /\ nextRecipeId' = nextRecipeId + 1
                 /\ pipes' = Step(p, [p EXCEPT !.pc = "update", !.status = "success",
                                               !.recipeId = nextRecipeId])
       ELSE /\ pipes' = Step(p, [p EXCEPT !.pc = "update", !.status = "failed",
                                          !.msg = MsgPersist])
            /\ UNCHANGED <<recipes, nextRecipeId>>
    /\ UNCHANGED <<jobs, nreq, reqs, answered>>
    /\ UNCHANGED serviceVars

CreateDoneSwallow(p, ok) ==
    /\ p \in BagToSet(pipes) /\ p.pc = "scrape"
    /\ IF ok
       THEN /\ recipes' = recipes \cup {[id |-> nextRecipeId, sourceUrl |-> p.url]}
            /\ nextRecipeId' = nextRecipeId + 1
            /\ pipes' = Step(p, [p EXCEPT !.pc = "update", !.status = "success",
                                          !.recipeId = nextRecipeId])
       ELSE /\ pipes' = Step(p, [p EXCEPT !.pc = "update", !.status = "success"])
            /\ UNCHANGED <<recipes, nextRecipeId>>
    /\ UNCHANGED <<jobs, nreq, reqs, answered>>
    /\ UNCHANGED serviceVars

\* lines 91-92: recipeService.createRecipe(recipeData) commits or throws
CreateDone(p, ok) ==
    /\ p \in BagToSet(pipes) /\ p.pc = "scrape"
    /\ IF ok
       THEN /\ recipes' = recipes \cup {[id |-> nextRecipeId, sourceUrl |-> p.url]}
            /\ nextRecipeId' = nextRecipeId + 1
            /\ pipes' = Step(p, [p EXCEPT !.pc = "update", !.status = "success",
                                          !.recipeId = nextRecipeId])
       ELSE /\ pipes' = Step(p, [p EXCEPT !.pc = "update", !.status = "failed",
                                          !.msg = MsgPersist])
            /\ UNCHANGED <<recipes, nextRecipeId>>
    /\ UNCHANGED <<jobs, nreq, reqs, answered>>
    /\ UNCHANGED serviceVars

UpdateDoneNoWrite(p) ==
    /\ p \in BagToSet(pipes) /\ p.pc = "update"
    /\ pipes' = pipes (-) One(p)
    /\ UNCHANGED <<jobs, recipes, nextRecipeId, nreq, reqs, answered>>
    /\ UNCHANGED serviceVars

\* lines 93-100 after a commit, lines 112-121 after a throw
UpdateDone(p) ==
    /\ p \in BagToSet(pipes) /\ p.pc = "update"
    /\ jobs' = [jobs EXCEPT ![p.jobId] = Terminal(@, p.status, p.recipeId, p.msg)]
    /\ pipes' = pipes (-) One(p)
    /\ UNCHANGED <<recipes, nextRecipeId, nreq, reqs, answered>>
    /\ UNCHANGED serviceVars

\* ------------------------------------------------------- getScrapingStatus
\* lines 186-195: the job part of the response of GET /status/:jobId
StatusResponse(j) ==
    [status |-> j.status, errorMessage |-> j.errorMessage,
     retryCount |-> j.retryCount]

\* ------------------------------------------------------------ deleteRecipe
DeleteRecipe(r) ==
    /\ r \in recipes
    /\ recipes' = recipes \ {r}
    /\ UNCHANGED <<jobs, nextRecipeId, nreq, reqs, answered, pipes>>
    /\ UNCHANGED serviceVars

\* -------------------------------------------------------------------- Next
Next ==
    \/ \E u \in SubmitInputs : SubmitStart(u)
    \/ \E r \in BagToSet(reqs) : SubmitCached(r)
    \/ \E r \in BagToSet(reqs) : SubmitProcessing(r)
    \/ \E r \in BagToSet(reqs) : SubmitUpsert(r)
    \/ \E r \in BagToSet(reqs) : SubmitLaunch(r)
    \/ \E id \in RetryIds : RetryStart(id)
    \/ \E r \in BagToSet(reqs) : RetryReject(r)
    \/ \E r \in BagToSet(reqs) : RetryUpdate(r)
    \/ \E r \in BagToSet(reqs) : RetryLaunch(r)
    \/ \E b \in BulkBodies : BulkStart(b)
    \/ \E r \in BagToSet(reqs) : BulkUpsert(r)
    \/ \E r \in BagToSet(reqs) : BulkLaunch(r)
    \/ \E p \in BagToSet(pipes), o \in Outcomes : ScrapeFailed(p, o)
    \/ \E p \in BagToSet(pipes), ok \in BOOLEAN : CreateDone(p, ok)
    \/ \E p \in BagToSet(pipes) : UpdateDone(p)
    \/ \E r \in recipes : DeleteRecipe(r)

Spec == Init /\ [][Next]_vars

\* ------------------------------------------------- the bulk endpoint alone
\* SpecBulk: a single POST /bulk whose body is at, below or above the batch
\* limit, with the pipelines it launches.  Requests racing each other are the
\* subject of Spec.
MaxBulkRecipes == 1       \* recipes committed in one behaviour of SpecBulk

Alternate(n) == [k \in 1..n |-> IF k % 2 = 1 THEN "u1" ELSE "u2"]

\* bodies around the batch limit, with and without entries that are not strings
BulkLimitBodies ==
    { Body(FALSE, <<>>), Body(TRUE, <<>>),
      Body(TRUE, <<"u2">>),
      Body(TRUE, Alternate(MaxBatch)),
      Body(TRUE, [Alternate(MaxBatch) EXCEPT ![1] = NonString, ![4] = NonString]),
      Body(TRUE, Repeat(NonString, MaxBatch)),
      Body(TRUE, Alternate(MaxBatch + 1)),
      Body(TRUE, Repeat(NonString, MaxBatch + 1)) }

BulkReceive(b) ==
    /\ nreq = 0
    /\ BulkStart(b)

CreateBounded(p, ok) ==
    /\ ok => nextRecipeId <= MaxBulkRecipes
    /\ CreateDone(p, ok)

NextBulk ==
    \/ \E b \in BulkLimitBodies : BulkReceive(b)
    \/ \E r \in BagToSet(reqs) : BulkUpsert(r)
    \/ \E r \in BagToSet(reqs) : BulkLaunch(r)
    \/ \E p \in BagToSet(pipes), o \in Outcomes : ScrapeFailed(p, o)
    \/ \E p \in BagToSet(pipes), ok \in BOOLEAN : CreateBounded(p, ok)
    \/ \E p \in BagToSet(pipes) : UpdateDone(p)

SpecBulk == Init /\ [][NextBulk]_vars

\* ------------------------------ SpecScrape: scrapeRecipe, stage by stage
\* One pipeline, followed through RecipeScrapingService.scrapeRecipe: the
\* fetch tier of SimpleScrapingService.scrapeWithFetch, then the five
\* puppeteer layers, then the .then/.catch of the controller.
MaxItems == 1             \* ingredient / instruction lines a strategy finds

\* new URL(url).hostname of the URLs, as its labels
Hostname(u) == IF u = "u1" THEN <<"www", "allrecipes", "com">> ELSE <<"example", "org">>

\* extractDomain: hostname.replace('www.', '')
extractDomain(u) ==
    LET h == Hostname(u)
        at == {i \in 1..(Len(h) - 1) : h[i] = "www"}
    IN  IF at = {} THEN h
        ELSE LET i == CHOOSE m \in at : \A n \in at : m <= n
             IN  SubSeq(h, 1, i - 1) \o SubSeq(h, i + 1, Len(h))

\* the switch of trySiteSpecificScraping
Registry(domain) ==
    CASE domain = <<"allrecipes", "com">> -> "scrapeAllRecipes"
      [] domain = <<"food", "com">> -> "scrapeFoodCom"
      [] domain = <<"epicurious", "com">> -> "scrapeEpicurious"
      [] OTHER -> "default"

\* the stages in the order of the code: the three extractions of
\* scrapeWithFetch, then Layers 1-5 of scrapeRecipe
Stages ==
    << "tryJsonLdExtraction", "tryMicrodataExtraction", "fetch.tryPatternMatching",
       "tryJsonLdScraping", "tryMicrodataScraping", "tryPatternMatching",
       "trySiteSpecificScraping", "tryIntelligentScraping" >>

LastLight == 3

\* what a strategy reads off the document: whether a title was found and how
\* many ingredient and instruction lines
Finds == [title : BOOLEAN, ingredients : 0..MaxItems, instructions : 0..MaxItems]

Cand(title, f) ==
    [some |-> TRUE, title |-> title, ingredients |-> f.ingredients,
     instructions |-> f.instructions]

NoLines(f) == f.ingredients = 0 /\ f.instructions = 0

\* the candidate each strategy builds from what it found
Candidate(stage, f) ==
    CASE stage \in {"tryJsonLdExtraction", "tryJsonLdScraping"} ->
           Cand(f.title, f)                       \* title: data.name
      [] stage \in {"tryMicrodataExtraction", "fetch.tryPatternMatching",
                    "tryPatternMatching"} ->
           IF ~f.title /\ NoLines(f) THEN NoCandidate
           ELSE Cand(TRUE, f)                     \* title || 'Scraped Recipe'
      [] stage = "tryMicrodataScraping" ->
           IF NoLines(f) THEN NoCandidate
           ELSE Cand(f.title, f)                  \* title || ''
      [] stage = "trySiteSpecificScraping" ->
           Cand(f.title, f)                       \* scrapeAllRecipes
      [] stage = "tryIntelligentScraping" ->
           IF NoLines(f) THEN NoCandidate
           ELSE Cand(TRUE, f)                     \* title || 'Recipe'

\* SimpleScrapingService.isValidResult
isValidResult(c) ==
    \/ c.title /\ (c.ingredients > 0 \/ c.instructions > 0)
    \/ c.ingredients > 0 /\ c.instructions > 0

\* RecipeScrapingService.isValidRecipe
isValidRecipe(c) ==
    \/ c.title
    \/ c.ingredients > 0 /\ c.instructions > 0

\* result && isValid...(result), with the gate of the stage's service
Accepted(k, c) ==
    c.some /\ (IF k <= LastLight THEN isValidResult(c) ELSE isValidRecipe(c))

\* formatRecipeData: title: result.title || 'Scraped Recipe'
formatRecipeData(c) == [c EXCEPT !.title = TRUE]

\* what the document of the lightweight fetch contains
Html == [indicator : BOOLEAN, recipe : BOOLEAN, ingredients : BOOLEAN]

isErrorPage(html) == html.indicator /\ ~html.recipe /\ ~html.ingredients

FetchOutcomes == {"network error", "non-2xx", "timeout", "ok"}

\* scrapeWithFetch up to cheerio.load: a failed fetch and an error page both
\* make it return null, which takes scrapeRecipe to Layer 1
scrapeWithFetch(o, html) ==
    /\ scrape.pc = "fetch"
    /\ scrape' =
         IF o # "ok"
         THEN [scrape EXCEPT !.pc = "rendered", !.k = LastLight + 1,
                             !.fetch = "failed", !.last = "threw"]
         ELSE IF isErrorPage(html)
         THEN [scrape EXCEPT !.pc = "rendered", !.k = LastLight + 1,
                             !.fetch = "error page", !.last = "null"]
         ELSE [scrape EXCEPT !.pc = "light", !.k = 1, !.fetch = "ok"]
    /\ UNCHANGED <<jobs, recipes, nextRecipeId, nreq, reqs, answered, pipes,
                   browser, call, client>>

SettleRethrows(outcome, c) ==
    LET k == scrape.k
        ran == [scrape EXCEPT !.trace = Append(@, Stages[k]), !.candidate = c]
    IN  IF Accepted(k, c)
        THEN [ran EXCEPT !.pc = "done", !.last = "accepted", !.result = "data",
                         !.data = formatRecipeData(c)]
        ELSE IF outcome = "threw"
        THEN [ran EXCEPT !.pc = "done", !.last = "threw", !.result = "null"]
        ELSE [ran EXCEPT !.last = (IF c.some THEN "rejected" ELSE outcome),
                         !.k = k + 1,
                         !.pc = IF k = LastLight THEN "rendered"
                                ELSE IF k = Len(Stages) THEN "done" ELSE @,
                         !.result = IF k = Len(Stages) THEN "null" ELSE @]

\* the stage scrape.k has run and gave candidate c (outcome tells a null from
\* a caught exception): return it when the gate accepts, else go on
Settle(outcome, c) ==
    LET k == scrape.k
        ran == [scrape EXCEPT !.trace = Append(@, Stages[k]), !.candidate = c]
    IN  IF Accepted(k, c)
        THEN [ran EXCEPT !.pc = "done", !.last = "accepted", !.result = "data",
                         !.data = formatRecipeData(c)]
        ELSE [ran EXCEPT !.last = (IF c.some THEN "rejected" ELSE outcome),
                         !.k = k + 1,
                         !.pc = IF k = LastLight THEN "rendered"
                                ELSE IF k = Len(Stages) THEN "done" ELSE @,
                         !.result = IF k = Len(Stages) THEN "null" ELSE @]

StrategyOutcomes == {"threw", "nothing found", "found"}

LightStageWarmsBrowser(o, f) ==
    /\ scrape.pc = "light"
    /\ o # "found" => f = [title |-> FALSE, ingredients |-> 0, instructions |-> 0]
    /\ scrape' = CASE o = "threw" -> Settle("threw", NoCandidate)
                   [] o = "nothing found" -> Settle("null", NoCandidate)
                   [] OTHER -> Settle("null", Candidate(Stages[scrape.k], f))
    /\ browser' = [browser EXCEPT !.up = TRUE, !.launches = @ + 1]
    /\ UNCHANGED <<jobs, recipes, nextRecipeId, nreq, reqs, answered, pipes, call,
                   client>>

\* one extraction of scrapeWithFetch on the fetched document; each has its
\* own try/catch that returns null
LightStage(o, f) ==
    /\ scrape.pc = "light"
    /\ o # "found" => f = [title |-> FALSE, ingredients |-> 0, instructions |-> 0]
    /\ scrape' = CASE o = "threw" -> Settle("threw", NoCandidate)
                   [] o = "nothing found" -> Settle("null", NoCandidate)
                   [] OTHER -> Settle("null", Candidate(Stages[scrape.k], f))
    /\ UNCHANGED <<jobs, recipes, nextRecipeId, nreq, reqs, answered, pipes,
                   browser, call, client>>

\* whether the layer opens a page: trySiteSpecificScraping does only for a
\* registered domain whose scraper is implemented
UsesBrowser(stage, u) ==
    stage = "trySiteSpecificScraping" => Registry(extractDomain(u)) = "scrapeAllRecipes"

RenderedOutcomes ==
    {"launch failed", "newPage failed", "goto failed", "nothing found", "found"}

\* initBrowser (launch only when this.browser is null), newPage, goto,
\* content, page.close, all inside the layer's try/catch
Render(b, o) ==
    LET launched == [b EXCEPT !.up = TRUE,
                              !.launches = @ + (IF b.up THEN 0 ELSE 1),
                              !.instance = 1, !.alive = {1}]
    IN  CASE o = "launch failed" -> b
          [] o = "newPage failed" -> launched
          [] o = "goto failed" -> [launched EXCEPT !.opened = @ + 1, !.open = @ + 1]
          [] OTHER -> [launched EXCEPT !.opened = @ + 1]

\* one layer of scrapeRecipe
RenderedStage(o, f) ==
    /\ scrape.pc = "rendered"
    /\ o # "found" => f = [title |-> FALSE, ingredients |-> 0, instructions |-> 0]
    /\ IF UsesBrowser(Stages[scrape.k], scrape.url)
       THEN /\ o = "launch failed" => ~browser.up
            /\ browser' = Render(browser, o)
            /\ scrape' = CASE o = "found" -> Settle("null", Candidate(Stages[scrape.k], f))
                           [] o = "nothing found" -> Settle("null", NoCandidate)
                           [] OTHER -> Settle("threw", NoCandidate)
       ELSE /\ o = "nothing found"
            /\ browser' = browser
            /\ scrape' = Settle("null", NoCandidate)
    /\ UNCHANGED <<jobs, recipes, nextRecipeId, nreq, reqs, answered, pipes, call,
                   client>>

\* .then with recipeData null
ResolvedNull ==
    /\ scrape.pc = "done" /\ scrape.result = "null"
    /\ \E p \in BagToSet(pipes) : ScrapeFailed(p, "null")

\* .then with recipeData: createRecipe(recipeData)
ResolvedData(ok) ==
    /\ scrape.pc = "done" /\ scrape.result = "data"
    /\ \E p \in BagToSet(pipes) : CreateDone(p, ok)

\* a submit of u has upserted job 1 and launched its pipeline; the browser
\* may be up from an earlier job
InitScrape ==
    \E u \in URLs :
      /\ jobs = Upsert(<<>>, u)
      /\ recipes = {}
      /\ nextRecipeId = 1
      /\ nreq = 0
      /\ reqs = EmptyBag
      /\ answered = NoAnswer
      /\ pipes = Launch(EmptyBag, u, 1)
      /\ scrape = [NoScrape EXCEPT !.url = u, !.pc = "fetch"]
      /\ browser \in {NoBrowser, [NoBrowser EXCEPT !.up = TRUE, !.instance = 1,
                                                       !.alive = {1}]}
      /\ call = NoCall
      /\ client = NoClient

NextScrape ==
    \/ \E o \in FetchOutcomes, html \in Html : scrapeWithFetch(o, html)
    \/ \E o \in StrategyOutcomes, f \in Finds : LightStage(o, f)
    \/ \E o \in RenderedOutcomes, f \in Finds : RenderedStage(o, f)
    \/ ResolvedNull
    \/ \E ok \in BOOLEAN : ResolvedData(ok)
    \/ \E p \in BagToSet(pipes) : UpdateDone(p)

SpecScrape == InitScrape /\ [][NextScrape]_vars

\* ------------------------------------------------------- text helpers
\* Strings are sequences of one-character strings.  parseTime and
\* parseTimeFromText are the same code in SimpleScrapingService and in
\* RecipeScrapingService.
MaxLen == 4               \* length of the enumerated duration strings
MaxWords == 3             \* words of the enumerated lines

DigitChars == <<"0", "1", "2", "3", "4", "5", "6", "7", "8", "9">>

IsDigit(c) == \E i \in 1..Len(DigitChars) : DigitChars[i] = c

DigitVal(c) == (CHOOSE i \in 1..Len(DigitChars) : DigitChars[i] = c) - 1

\* \s of the characters that occur
IsSpace(c) == c \in {" ", "\t", "\n"}

\* parseInt of a run of digits
RECURSIVE parseInt(_)
parseInt(ds) ==
    IF ds = <<>> THEN 0
    ELSE 10 * parseInt(SubSeq(ds, 1, Len(ds) - 1)) + DigitVal(ds[Len(ds)])

\* number | undefined
Undefined == [defined |-> FALSE, value |-> 0]

Num(n) == [defined |-> TRUE, value |-> n]

\* \d+ from position i, greedy: the last position of the run, i - 1 if none
DigitsEnd(t, i) ==
    LET ends == {j \in i..Len(t) : \A m \in i..j : IsDigit(t[m])}
    IN  IF ends = {} THEN i - 1 ELSE CHOOSE j \in ends : \A m \in ends : m <= j

\* \s* from position i: the first position that is not white space
SkipSpaces(t, i) ==
    LET stops == {j \in i..(Len(t) + 1) : j > Len(t) \/ ~IsSpace(t[j])}
    IN  CHOOSE j \in stops : \A m \in stops : j <= m

\* (?:(\d+)H)? at position i of /PT(?:(\d+)H)?(?:(\d+)M)?/
IsoGroup(t, i, unit) ==
    LET e == DigitsEnd(t, i)
    IN  IF e >= i /\ e < Len(t) /\ t[e + 1] = unit
        THEN [digits |-> SubSeq(t, i, e), next |-> e + 2]
        ELSE [digits |-> <<"0">>, next |-> i]

\* text.match(/(\d+)\s*h(?:our|r)?/i): the digits of the leftmost match
TokenAt(t, i, units) ==
    /\ IsDigit(t[i])
    /\ LET j == SkipSpaces(t, DigitsEnd(t, i) + 1)
       IN  j <= Len(t) /\ t[j] \in units

TokenValue(t, units) ==
    LET at == {i \in 1..Len(t) : TokenAt(t, i, units)}
    IN  IF at = {} THEN 0
        ELSE LET i == CHOOSE m \in at : \A n \in at : m <= n
             IN  parseInt(SubSeq(t, i, DigitsEnd(t, i)))

parseTimeFromText(t) ==
    IF t = <<>> THEN Undefined
    ELSE LET minutes == TokenValue(t, {"h", "H"}) * 60 + TokenValue(t, {"m", "M"})
         IN  IF minutes = 0 THEN Undefined ELSE Num(minutes)

parseTime(t) ==
    IF t = <<>> THEN Undefined
    ELSE IF Len(t) >= 2 /\ SubSeq(t, 1, 2) = <<"P", "T">>
    THEN LET h == IsoGroup(t, 3, "H")
             m == IsoGroup(t, h.next, "M")
         IN  Num(parseInt(h.digits) * 60 + parseInt(m.digits))
    ELSE parseTimeFromText(t)

\* toLowerCase, on the letters that occur in upper case
toLowerCase(t) ==
    [i \in 1..Len(t) |->
       CASE t[i] = "S" -> "s" [] t[i] = "C" -> "c" [] t[i] = "P" -> "p"
         [] t[i] = "T" -> "t" [] t[i] = "H" -> "h" [] t[i] = "M" -> "m"
         [] t[i] = "F" -> "f" [] OTHER -> t[i]]

Letters ==
    {"a", "b", "c", "d", "e", "f", "g", "h", "i", "j", "k", "l", "m", "n", "o",
     "p", "q", "r", "s", "t", "u", "v", "w", "x", "y", "z",
     "C", "F", "H", "M", "P", "S", "T"}

\* \w
IsWordChar(c) == c \in Letters \/ IsDigit(c) \/ c = "_"

navPatterns ==
    { <<"l", "o", "g", " ", "i", "n">>,
      <<"s", "i", "g", "n", " ", "u", "p">>,
      <<"m", "e", "n", "u">>,
      <<"h", "o", "m", "e">>,
      <<"a", "b", "o", "u", "t", " ", "u", "s">>,
      <<"c", "o", "n", "t", "a", "c", "t">>,
      <<"s", "e", "a", "r", "c", "h">>,
      <<"s", "u", "b", "s", "c", "r", "i", "b", "e">>,
      <<"n", "e", "w", "s", "l", "e", "t", "t", "e", "r">>,
      <<"m", "y", " ", "a", "c", "c", "o", "u", "n", "t">>,
      <<"s", "e", "t", "t", "i", "n", "g", "s">>,
      <<"h", "e", "l", "p">>,
      <<"p", "r", "i", "v", "a", "c", "y">>,
      <<"t", "e", "r", "m", "s">>,
      <<"c", "o", "o", "k", "i", "e", "s">>,
      <<"a", "c", "c", "e", "p", "t", " ", "a", "l", "l", " ", "c", "o", "o", "k", "i", "e", "s">>,
      <<"a", "d", "v", "e", "r", "t", "i", "s", "e", "m", "e", "n", "t">>,
      <<"f", "o", "l", "l", "o", "w", " ", "u", "s">>,
      <<"s", "o", "c", "i", "a", "l", " ", "m", "e", "d", "i", "a">> }

\* the string has pat at position i
At(t, pat, i) ==
    i >= 1 /\ i + Len(pat) - 1 <= Len(t) /\ SubSeq(t, i, i + Len(pat) - 1) = pat

\* /\bpat\b/.test(t)
TestWord(t, pat) ==
    \E i \in 1..Len(t) :
      /\ At(t, pat, i)
      /\ i = 1 \/ ~IsWordChar(t[i - 1])
      /\ i + Len(pat) > Len(t) \/ ~IsWordChar(t[i + Len(pat)])

\* text.trim()
trim(t) ==
    LET keep == {i \in 1..Len(t) : ~IsSpace(t[i])}
    IN  IF keep = {} THEN <<>>
        ELSE SubSeq(t, CHOOSE i \in keep : \A n \in keep : i <= n,
                       CHOOSE j \in keep : \A n \in keep : n <= j)

\* /a.*b$/.test(t)
TestThenEnds(t, a, b) ==
    /\ Len(t) >= Len(b) /\ At(t, b, Len(t) - Len(b) + 1)
    /\ \E i \in 1..Len(t) : At(t, a, i) /\ i + Len(a) <= Len(t) - Len(b) + 1

\* the character U+2014, one element of a string
EmDash == "U+2014"

MinDescription == 10
MaxDescription == 100

isRecipeDescription(text) ==
    LET t == trim(text)
    IN  \/ /\ Len(t) >= MinDescription /\ Len(t) <= MaxDescription   \* /^[^.]{10,100}$/
           /\ \A i \in 1..Len(t) : t[i] # "."
        \/ TestThenEnds(t, <<"c", "o", "o", "k", "e", "d", " ", "i", "n">>,
                        <<"s", "a", "u", "c", "e">>)
        \/ TestThenEnds(t, <<"s", "t", "y", "l", "e">>, <<"r", "e", "c", "i", "p", "e">>)
        \/ TestThenEnds(toLowerCase(t), <<EmDash>>, <<"r", "e", "c", "i", "p", "e">>)
        \/ TestThenEnds(toLowerCase(t), <<EmDash>>, <<"r", "e", "c", "i", "p", "e", ".">>)

MaxOtherLength == 500

isNavigationText(text, isInstructionContext) ==
    LET lowerText == toLowerCase(text)
        hasNavKeywords == \E pat \in navPatterns : TestWord(lowerText, pat)
    IN  IF isInstructionContext
        THEN hasNavKeywords \/ isRecipeDescription(text)
        ELSE hasNavKeywords \/ Len(text) > MaxOtherLength

\* --------------------------------------------------- SpecTime and SpecNav
\* all strings over the alphabet up to a length
RECURSIVE StringsUpTo(_, _)
StringsUpTo(alphabet, n) ==
    IF n = 0 THEN {<<>>}
    ELSE LET shorter == StringsUpTo(alphabet, n - 1)
         IN  shorter \cup {Append(t, c) : t \in shorter, c \in alphabet}

TimeAlphabet == {"P", "T", "H", "M", "S", "h", "m", "0", "1", " "}

Iso90 == <<"P", "T", "1", "H", "3", "0", "M">>

Text45 == <<"4", "5", " ", "m", "i", "n", "u", "t", "e", "s">>

TimeStrings == StringsUpTo(TimeAlphabet, MaxLen) \cup {Iso90, Text45}

Vocabulary ==
    { <<"m", "e", "n", "u">>,
      <<"m", "e", "n", "u", "s">>,
      <<"l", "o", "g">>,
      <<"i", "n">>,
      <<"h", "e", "l", "p">>,
      <<"C", "o", "o", "k">>,
      <<"s", "t", "i", "r", "r", "i", "n", "g">> }

\* words joined by single spaces
RECURSIVE Join(_)
Join(ws) ==
    IF ws = <<>> THEN <<>>
    ELSE IF Len(ws) = 1 THEN ws[1]
    ELSE ws[1] \o <<" ">> \o Join(Tail(ws))

SubscribeLine ==
    <<"S", "u", "b", "s", "c", "r", "i", "b", "e", " ", "t", "o", " ", "o",
    "u", "r", " ", "n", "e", "w", "s", "l", "e", "t", "t", "e", "r">>

CookLine ==
    <<"C", "o", "o", "k", " ", "f", "o", "r", " ", "a", "b", "o", "u", "t",
    " ", "3", "0", " ", "m", "i", "n", "u", "t", "e", "s", ",", " ", "s",
    "t", "i", "r", "r", "i", "n", "g", " ", "o", "c", "c", "a", "s", "i",
    "o", "n", "a", "l", "l", "y">>

\* lines with a period that end in the stock phrasings of a description
SauceLine ==
    <<"S", "t", "i", "r", ".", " ", "F", "i", "s", "h", " ", "c", "o", "o",
    "k", "e", "d", " ", "i", "n", " ", "r", "e", "d", " ", "s", "a", "u",
    "c", "e">>

StyleLine ==
    <<"S", "t", "i", "r", ".", " ", "T", "h", "a", "i", " ", "s", "t", "y",
    "l", "e", " ", "r", "e", "c", "i", "p", "e">>

DashLine ==
    <<"S", "t", "i", "r", ".", " ", "C", "o", "o", "k", " ", EmDash, " ",
    "a", " ", "r", "e", "c", "i", "p", "e", ".">>

\* a cooking step that is longer than the limit outside instructions
LongStep ==
    <<"C", "o", "o", "k", " ">> \o
    [i \in 1..MaxOtherLength |-> IF i % 5 = 0 THEN " " ELSE "a"]

Lines ==
    LET plain == {Join(ws) : ws \in UNION {[1..n -> Vocabulary] : n \in 1..MaxWords}}
    IN  plain \cup {Append(t, ".") : t \in plain}
              \cup {SubscribeLine, CookLine, LongStep, SauceLine, StyleLine, DashLine}

CallOf(fn, text, context) ==
    [NoCall EXCEPT !.fn = fn, !.text = text, !.context = context]

\* the tables are empty and no pipeline runs; one helper is called
InitText(calls) ==
    /\ jobs = <<>>
    /\ recipes = {}
    /\ nextRecipeId = 1
    /\ nreq = 0
    /\ reqs = EmptyBag
    /\ answered = NoAnswer
    /\ pipes = EmptyBag
    /\ scrape = NoScrape
    /\ browser = NoBrowser
    /\ call \in calls
    /\ client = NoClient

Return(c) ==
    /\ call' = c
    /\ UNCHANGED <<jobs, recipes, nextRecipeId, nreq, reqs, answered, pipes,
                   scrape, browser, client>>

ParseTime ==
    /\ call.fn = "parseTime" /\ ~call.done
    /\ Return([call EXCEPT !.done = TRUE, !.minutes = parseTime(call.text)])

InitTime == InitText({CallOf("parseTime", t, FALSE) : t \in TimeStrings})

NextTime == ParseTime

SpecTime == InitTime /\ [][NextTime]_vars

IsNavigationText ==
    /\ call.fn = "isNavigationText" /\ ~call.done
    /\ Return([call EXCEPT !.done = TRUE,
                           !.rejected = isNavigationText(call.text, call.context)])

InitNav == InitText({CallOf("isNavigationText", t, c) : t \in Lines, c \in BOOLEAN})

NextNav == IsNavigationText

SpecNav == InitNav /\ [][NextNav]_vars

\* ------------------------------- SpecExtract: what a strategy picks
\* One field of one strategy on one document.  The document is given by the
\* elements that each selector of the field matches, in document order; an
\* element is given by what the strategies test of its trimmed text.
MaxElements == 2          \* elements that one selector matches

Text(length, keywords, description, cooking) ==
    [length |-> length, keywords |-> keywords, description |-> description,
     cooking |-> cooking]

\* the texts tried: empty, "1", "salt", "Stir it well.", a cooking step, a
\* line with a navigation phrase, a period-free blurb, a large block
Texts ==
    { Text(0, FALSE, FALSE, FALSE), Text(2, FALSE, FALSE, FALSE),
      Text(5, FALSE, FALSE, FALSE), Text(13, FALSE, FALSE, TRUE),
      Text(40, FALSE, FALSE, TRUE), Text(40, TRUE, FALSE, FALSE),
      Text(40, FALSE, TRUE, FALSE), Text(1200, FALSE, FALSE, TRUE) }

\* isNavigationText on a text of which the two filters' answers are known
IsNavigation(t, isInstructionContext) ==
    IF isInstructionContext THEN t.keywords \/ t.description
    ELSE t.keywords \/ t.length > MaxOtherLength

MaxInstructionLength == 500

\* RecipeScrapingService.looksLikeInstruction
looksLikeInstruction(t) ==
    t.cooking /\ t.length > 20 /\ t.length < MaxInstructionLength /\ ~t.keywords

PatternStrategies == {"fetch.tryPatternMatching", "tryPatternMatching"}

EachStrategies ==
    {"tryMicrodataExtraction", "tryMicrodataScraping", "trySiteSpecificScraping"}

MapStrategies == {"tryJsonLdExtraction", "tryJsonLdScraping"}

\* the selectors of a field, in priority order: the first two of the code's
\* list that differ in what parseInstructionBlock does with them
Selectors(fn, field) ==
    CASE fn \in PatternStrategies /\ field = "title" ->
           <<"h1.recipe-title", "h1.entry-title">>
      [] fn \in PatternStrategies /\ field = "ingredients" ->
           <<".ingredients li", ".recipe-ingredients li">>
      [] fn = "fetch.tryPatternMatching" /\ field = "instructions" ->
           <<".recipe-process", ".instructions li">>
      [] fn = "tryPatternMatching" /\ field = "instructions" ->
           <<".instructions li", ".directions li">>
      [] fn \in {"tryMicrodataExtraction", "tryMicrodataScraping"} ->
           <<"[itemprop=\"recipeInstructions\"]">>
      [] fn = "trySiteSpecificScraping" -> <<".recipe-directions__list--item">>
      [] fn \in MapStrategies -> <<"recipeInstructions">>
      [] OTHER -> <<"p, li, div">>

\* selector.includes('recipe-process')
IncludesRecipeProcess(selector) == selector = ".recipe-process"

\* the test an element's text passes to be taken
Accepts(fn, field, t) ==
    CASE field = "title" -> t.length > 0
      [] fn = "fetch.tryPatternMatching" /\ field = "ingredients" ->
           t.length > 0 /\ t.length > 2 /\ ~IsNavigation(t, FALSE)
      [] fn = "tryPatternMatching" /\ field = "ingredients" ->
           t.length > 0 /\ t.length > 2
      [] fn = "fetch.tryPatternMatching" /\ field = "instructions" ->
           t.length > 0 /\ t.length > 15 /\ ~IsNavigation(t, TRUE)
      [] fn \in {"tryPatternMatching", "tryMicrodataExtraction"} ->
           t.length > 0 /\ t.length > 10
      [] fn \in {"tryMicrodataScraping", "trySiteSpecificScraping"} -> t.length > 0
      [] fn \in MapStrategies -> TRUE
      [] OTHER -> looksLikeInstruction(t)

\* a value of the result: the selector and the element it comes from, and the
\* number it carries (0 where the field has none)
Value(s, i, n) == [selector |-> s, element |-> i, number |-> n]

Indices(els) == [i \in 1..Len(els) |-> i]

Taken(fn, field, els) ==
    SelectSeq(Indices(els), LAMBDA i : Accepts(fn, field, els[i]))

\* $(selector).each((i, el) => { if (...) push({ number: i + 1 }) })
EachNumbered(fn, field, s, els) ==
    LET taken == Taken(fn, field, els)
    IN  [k \in 1..Len(taken) |-> Value(s, taken[k], taken[k])]

\* $(selector).each((i, el) => { if (...) push({ name, amount, ... }) })
EachPushed(fn, field, s, els) ==
    LET taken == Taken(fn, field, els)
    IN  [k \in 1..Len(taken) |-> Value(s, taken[k], 0)]

\* the steps parseBongEatsInstructionBlock makes of a large block
BlockSteps == 2

MinBlockLength == 1000

\* parseInstructionBlock(text, selector), for element i of selector s
parseInstructionBlock(t, selectors, s, i) ==
    IF IncludesRecipeProcess(selectors[s]) /\ t.length > MinBlockLength
    THEN [n \in 1..BlockSteps |-> Value(s, i, n)]
    ELSE <<Value(s, i, 1)>>

RECURSIVE Spread(_, _, _, _, _)
\* tempInstructions.push(...parseInstructionBlock(text, selector)) over the
\* elements taken
Spread(selectors, s, els, taken, k) ==
    IF k > Len(taken) THEN <<>>
    ELSE parseInstructionBlock(els[taken[k]], selectors, s, taken[k])
           \o Spread(selectors, s, els, taken, k + 1)

\* what one selector adds to the field
FromSelector(fn, field, doc, s) ==
    CASE field = "ingredients" -> EachPushed(fn, field, s, doc[s])
      [] fn = "fetch.tryPatternMatching" ->
           Spread(Selectors(fn, field), s, doc[s], Taken(fn, field, doc[s]), 1)
      [] OTHER -> EachNumbered(fn, field, s, doc[s])

MinIngredients == 2

\* the break of the selector loop
Enough(fn, field, acc) ==
    IF fn = "fetch.tryPatternMatching" /\ field = "ingredients"
    THEN Len(acc) > MinIngredients
    ELSE Len(acc) > 0

RECURSIVE SelectorLoop(_, _, _, _, _)
\* for (const selector of ...Selectors) { ...; if (enough) break }
SelectorLoop(fn, field, doc, s, acc) ==
    IF s > Len(doc) THEN acc
    ELSE LET more == acc \o FromSelector(fn, field, doc, s)
         IN  IF Enough(fn, field, more) THEN more
             ELSE SelectorLoop(fn, field, doc, s + 1, more)

\* the title loop: $(selector).first(), taken when its text is not empty
TitleLoop(fn, doc) ==
    LET hits == {s \in 1..Len(doc) :
                   Len(doc[s]) > 0 /\ Accepts(fn, "title", doc[s][1])}
    IN  IF hits = {} THEN <<>>
        ELSE <<Value(CHOOSE s \in hits : \A m \in hits : s <= m, 1, 0)>>

MaxSlice == 15

\* the values a strategy puts into the field
Extract(fn, field, doc) ==
    CASE fn \in PatternStrategies /\ field = "title" -> TitleLoop(fn, doc)
      [] fn \in PatternStrategies -> SelectorLoop(fn, field, doc, 1, <<>>)
      [] fn \in EachStrategies -> EachNumbered(fn, field, 1, doc[1])
      [] fn \in MapStrategies ->
           [i \in 1..Len(doc[1]) |-> Value(1, i, i)]     \* map: index + 1
      [] OTHER ->                                        \* filter, slice, forEach
           LET taken == Taken(fn, field, doc[1])
               kept == SubSeq(taken, 1, IF Len(taken) < MaxSlice THEN Len(taken)
                                        ELSE MaxSlice)
           IN  [k \in 1..Len(kept) |-> Value(1, kept[k], k)]

Elements == UNION {[1..n -> Texts] : n \in 0..MaxElements}

Fields(fn) ==
    IF fn \in PatternStrategies THEN {"title", "ingredients", "instructions"}
    ELSE {"instructions"}

ExtractCalls ==
    { [NoCall EXCEPT !.fn = fn, !.field = field, !.doc = doc] :
        fn \in PatternStrategies, field \in Fields("tryPatternMatching"),
        doc \in [1..2 -> Elements] }
    \cup
    { [NoCall EXCEPT !.fn = fn, !.field = "instructions", !.doc = doc] :
        fn \in EachStrategies \cup MapStrategies \cup {"tryIntelligentScraping"},
        doc \in [1..1 -> Elements] }

Extraction ==
    /\ call.field # "none" /\ ~call.done
    /\ Return([call EXCEPT !.done = TRUE,
                           !.out = Extract(call.fn, call.field, call.doc)])

InitExtract == InitText(ExtractCalls)

NextExtract == Extraction

SpecExtract == InitExtract /\ [][NextExtract]_vars

\* ------------------------- SpecBrowser: initBrowser under concurrent jobs
\* The controller has one RecipeScrapingService (scrapingController.ts:6), so
\* the rendered strategies of all pipelines call initBrowser on one object.
\* initBrowser reads this.browser, awaits puppeteer.launch when it is null
\* and assigns the result; closeBrowser awaits browser.close() and then
\* assigns null.  Each await is a point where other calls run.
MaxCallers == 2           \* pipelines whose strategies call initBrowser
MaxLaunches == 3          \* launches of puppeteer in one behaviour

NoInit == [pc |-> "idle", got |-> 0]

\* lines 44-45: if (!this.browser) await puppeteer.launch(...), else line 59
InitBrowserCall(c) ==
    /\ browser.calls[c].pc = "idle"
    /\ browser.instance = 0 => browser.launches < MaxLaunches
    /\ browser' =
         IF browser.instance = 0
         THEN [browser EXCEPT !.calls[c].pc = "launching"]
         ELSE [browser EXCEPT !.calls[c] = [pc |-> "returned", got |-> browser.instance]]
    /\ UNCHANGED <<jobs, recipes, nextRecipeId, nreq, reqs, answered, pipes,
                   scrape, call, client>>

\* lines 45-59: the launch resolves, this.browser = the new instance, return
\* this.browser; or the launch rejects and initBrowser rejects
LaunchSettles(c, ok) ==
    /\ browser.calls[c].pc = "launching"
    /\ browser' =
         IF ok
         THEN LET id == browser.launches + 1
              IN  [browser EXCEPT !.launches = id, !.up = TRUE, !.instance = id,
                                  !.alive = @ \cup {id},
                                  !.calls[c] = [pc |-> "returned", got |-> id]]
         ELSE [browser EXCEPT !.calls[c].pc = "threw"]
    /\ UNCHANGED <<jobs, recipes, nextRecipeId, nreq, reqs, answered, pipes,
                   scrape, call, client>>

\* the strategy ends and a later strategy of the pipeline calls again
NextStrategy(c) ==
    /\ browser.calls[c].pc \in {"returned", "threw"}
    /\ browser' = [browser EXCEPT !.calls[c] = NoInit]
    /\ UNCHANGED <<jobs, recipes, nextRecipeId, nreq, reqs, answered, pipes,
                   scrape, call, client>>

\* lines 62-64: if (this.browser) await this.browser.close()
CloseBrowserCall ==
    /\ browser.closing = 0 /\ browser.instance # 0
    /\ browser' = [browser EXCEPT !.closing = browser.instance, !.closes = 1]
    /\ UNCHANGED <<jobs, recipes, nextRecipeId, nreq, reqs, answered, pipes,
                   scrape, call, client>>

\* lines 64-65: the close resolves, this.browser = null
CloseSettles ==
    /\ browser.closing # 0
    /\ browser' = [browser EXCEPT !.alive = @ \ {browser.closing}, !.closing = 0,
                                  !.instance = 0, !.up = FALSE]
    /\ UNCHANGED <<jobs, recipes, nextRecipeId, nreq, reqs, answered, pipes,
                   scrape, call, client>>

InitBrowser ==
    /\ jobs = <<>>
    /\ recipes = {}
    /\ nextRecipeId = 1
    /\ nreq = 0
    /\ reqs = EmptyBag
    /\ answered = NoAnswer
    /\ pipes = EmptyBag
    /\ scrape = NoScrape
    /\ browser = [NoBrowser EXCEPT !.calls = [c \in 1..MaxCallers |-> NoInit]]
    /\ call = NoCall
    /\ client = NoClient

NextBrowser ==
    \/ \E c \in 1..MaxCallers : InitBrowserCall(c)
    \/ \E c \in 1..MaxCallers, ok \in BOOLEAN : LaunchSettles(c, ok)
    \/ \E c \in 1..MaxCallers : NextStrategy(c)
    \/ CloseBrowserCall
    \/ CloseSettles

SpecBrowser == InitBrowser /\ [][NextBrowser]_vars

\* ------------------------------------ SpecPoll: the importer's poller
\* handleScrapeRecipe posts the URL and, on a processing answer, calls
\* pollScrapingStatus(jobId); poll() fetches GET /status/:jobId, whose handler
\* reads the job row, then the recipe of a success row, and answers.  The
\* same code is in SimpleRecipeImporter.tsx and in the recipe importer dialog.
maxAttempts == 30

\* one POST /scrape, from the importer
SubmitOnce(u) ==
    /\ nreq = 0
    /\ SubmitStart(u)

ClientStep(c) ==
    /\ client' = c
    /\ UNCHANGED <<jobs, recipes, nextRecipeId, nreq, reqs, answered, pipes,
                   scrape, browser, call>>

\* lines 59-66 and 117: the answer is processing; the first poll() is called
PollStart ==
    /\ client.pc = "idle"
    /\ answered.op = "submit" /\ answered.resp.status = "processing"
    /\ ClientStep([client EXCEPT !.pc = "fetching", !.jobId = answered.resp.jobId,
                                 !.requests = @ + 1])

\* setTimeout(poll, 10000) fires: the next fetch
PollTimer ==
    /\ client.pc = "scheduled"
    /\ ClientStep([client EXCEPT !.pc = "fetching", !.requests = @ + 1])

\* getScrapingStatus, lines 137-145: scrapedUrl.findUnique by id
StatusRead ==
    /\ client.pc = "fetching"
    /\ ClientStep([client EXCEPT !.pc = "gotJob",
                                 !.row = Snapshot(FindById(jobs, client.jobId))])

\* a poller that allows one attempt more
RescheduleOneMore(attempts) == attempts <= maxAttempts

\* whether poll() schedules another poll after a processing response
Reschedule(attempts) == attempts < maxAttempts

\* what poll() does with the response data
Polled(c, status, hasRecipe) ==
    CASE status = "success" /\ hasRecipe -> [c EXCEPT !.pc = "stopped"]
      [] status = "failed" -> [c EXCEPT !.pc = "stopped"]
      [] status = "processing" ->
           [c EXCEPT !.attempts = @ + 1,
                     !.pc = IF Reschedule(c.attempts + 1) THEN "scheduled"
                            ELSE "stopped"]
      [] OTHER -> [c EXCEPT !.pc = "stopped"]

\* getScrapingStatus, lines 147-195: recipe.findUnique for a success row, then
\* res.json with the row's status; poll() handles the response (a fetch that
\* fails, or a 404 or 500 answer, carries no status)
StatusReply(ok) ==
    /\ client.pc = "gotJob"
    /\ LET status == IF ok /\ client.row.id # 0 THEN client.row.status ELSE "none"
           hasRecipe == /\ client.row.recipeId # 0
                        /\ RecipeExists(recipes, client.row.recipeId)
       IN  ClientStep(Polled([client EXCEPT !.last = status], status, hasRecipe))

NextPoll ==
    \/ \E u \in SubmitInputs : SubmitOnce(u)
    \/ \E r \in BagToSet(reqs) : SubmitUpsert(r)
    \/ \E r \in BagToSet(reqs) : SubmitLaunch(r)
    \/ \E p \in BagToSet(pipes), o \in Outcomes : ScrapeFailed(p, o)
    \/ \E p \in BagToSet(pipes), ok \in BOOLEAN : CreateDone(p, ok)
    \/ \E p \in BagToSet(pipes) : UpdateDone(p)
    \/ \E r \in recipes : DeleteRecipe(r)
    \/ PollStart
    \/ PollTimer
    \/ StatusRead
    \/ \E ok \in BOOLEAN : StatusReply(ok)

\* the server side goes on whatever the client does: a pipeline that can
\* step does, and the handler that has upserted launches
ServerStep ==
    \/ \E r \in BagToSet(reqs) : SubmitLaunch(r)
    \/ \E p \in BagToSet(pipes), o \in Outcomes : ScrapeFailed(p, o)
    \/ \E p \in BagToSet(pipes), ok \in BOOLEAN : CreateDone(p, ok)
    \/ \E p \in BagToSet(pipes) : UpdateDone(p)

SpecPoll == Init /\ [][NextPoll]_vars /\ WF_vars(ServerStep)

\* --------------------------- SpecStuck: the server after an interruption
\* The job table outlives the server process, the pipelines do not: they are
\* promises of the process that launched them.  SpecStuck starts where a
\* restart leaves the program when it was interrupted between the upsert of
\* lines 75-86 and the terminal update of its pipeline: the row of one URL
\* in status processing, no handler and no pipeline.
StuckUrl == "u1"

StuckRows ==
    { [id |-> 1, url |-> StuckUrl, status |-> "processing", retryCount |-> n,
       recipeId |-> 0, errorMessage |-> m] :
        n \in {0, 1}, m \in {NoMsg, MsgNoData} }

InitStuck ==
    /\ jobs \in { <<row>> : row \in StuckRows }
    /\ recipes = {}
    /\ nextRecipeId = 1
    /\ nreq = 0
    /\ reqs = EmptyBag
    /\ answered = NoAnswer
    /\ pipes = EmptyBag
    /\ scrape = NoScrape
    /\ browser = NoBrowser
    /\ call = NoCall
    /\ client = NoClient

SpecStuck == InitStuck /\ [][Next]_vars

\* ================================================================== claims
\* the handler r takes this step / the request r arrives in this step
Acted(r) == r \in BagToSet(reqs) /\ CopiesIn(r, reqs') < CopiesIn(r, reqs)

Arrived(r) == nreq' = nreq + 1 /\ CopiesIn(r, reqs') > CopiesIn(r, reqs)

Pipelines == BagCardinality(pipes)

\* C1: in every reachable state at most one extraction pipeline is in flight
\* for any given URL.
C1_AtMostOnePipelinePerUrl == \A u \in URLs : InFlight(u) <= 1

\* the row of url u as a submit, retry or bulk handler would find it now
Row(u) == FindByUrl(jobs, u)

\* the handler r is replaced by r2 and nothing is answered
Becomes(r, r2) == reqs' = (reqs (-) One(r)) (+) One(r2) /\ answered' = answered

\* the handler r ends with the response resp
Answers(r, resp) == reqs' = reqs (-) One(r) /\ answered' = Answer(r, resp)

\* exactly one pipeline is started, for url u on job id
LaunchesOne(u, id) ==
    /\ BagCardinality(pipes') = BagCardinality(pipes) + 1
    /\ \E p \in BagToSet(pipes') :
         /\ p.url = u /\ p.jobId = id /\ p.pc = "scrape"
         /\ pipes' = pipes (+) One(p)

\* C2: a submit that read a job in status success and finds the referenced
\* recipe in the store answers success with that recipe and cached = true,
\* starts no pipeline, creates no recipe and leaves every job row as it is.
C2_CacheHitStep ==
    \A r \in BagToSet(reqs) :
      ( /\ Acted(r) /\ r.op = "submit" /\ r.pc = "gotJob"
        /\ r.existing.status = "success" /\ r.existing.recipeId # 0
        /\ RecipeExists(recipes, r.existing.recipeId) )
      => /\ Answers(r, [NoResp EXCEPT !.code = 200, !.status = "success",
                                      !.recipe = r.existing.recipeId,
                                      !.cached = TRUE])
         /\ UNCHANGED <<jobs, recipes, nextRecipeId, pipes>>

\* a submit reads the row of its URL when it arrives
SubmitReadsRow ==
    \A r \in BagToSet(reqs') :
      (Arrived(r) /\ r.op = "submit")
      => r.pc = "gotJob" /\ r.existing = Snapshot(Row(r.url))

C2_CacheHit == [][C2_CacheHitStep /\ SubmitReadsRow]_vars

\* a cache hit has been answered
C2_Witness ==
    /\ answered.op = "submit" /\ answered.resp.cached
    /\ answered.resp.status = "success"
    /\ RecipeExists(recipes, answered.resp.recipe)
    /\ Row(answered.url).recipeId = answered.resp.recipe

\* C3: a job is created in status processing and its status changes only
\* processing -> success, processing -> failed and failed -> processing.
AllowedStatusChanges ==
    { <<"processing", "success">>, <<"processing", "failed">>,
      <<"failed", "processing">> }

C3_StatusStep ==
    /\ Len(jobs') >= Len(jobs)
    /\ \A id \in 1..Len(jobs') :
         IF id \in 1..Len(jobs)
         THEN \/ jobs'[id].status = jobs[id].status
              \/ <<jobs[id].status, jobs'[id].status>> \in AllowedStatusChanges
         ELSE jobs'[id].status = "processing"

C3_StatusTransitions == [][C3_StatusStep]_vars

\* C4: a submit that finds the job of its URL in status processing answers
\* processing with that job's id, starts no pipeline and changes no job row.
C4_ProcessingStep ==
    \A r \in BagToSet(reqs) :
      ( /\ Acted(r) /\ r.op = "submit" /\ r.pc = "gotJob"
        /\ r.existing.status = "processing" )
      => /\ Answers(r, [NoResp EXCEPT !.code = 200, !.status = "processing",
                                      !.jobId = r.existing.id,
                                      !.message = MsgBeingScraped])
         /\ UNCHANGED <<jobs, recipes, nextRecipeId, pipes>>

C4_SubmitOnProcessing == [][C4_ProcessingStep /\ SubmitReadsRow]_vars

C4_Witness ==
    /\ answered.op = "submit" /\ answered.resp.message = MsgBeingScraped
    /\ answered.resp.jobId = Row(answered.url).id
    /\ Row(answered.url).retryCount = 0
    /\ InFlight(answered.url) = 1

\* C5: a submit that found no job, or a failed one, upserts: on a URL without
\* a row it creates one row with status processing and retryCount 0, on a
\* failed row it sets processing and adds exactly 1 to retryCount; it then
\* starts exactly one pipeline and answers processing with the job id while
\* that pipeline is still running.
C5_UpsertStep ==
    \A r \in BagToSet(reqs) :
      ( /\ Acted(r) /\ r.op = "submit" /\ r.pc = "gotJob"
        /\ (r.existing.id = 0 \/ r.existing.status = "failed") )
      => /\ pipes' = pipes /\ recipes' = recipes
         /\ IF Row(r.url).id = 0
            THEN /\ jobs' = Append(jobs,
                      [id |-> Len(jobs) + 1, url |-> r.url,
                       status |-> "processing", retryCount |-> 0,
                       recipeId |-> 0, errorMessage |-> NoMsg])
                 /\ Becomes(r, [r EXCEPT !.pc = "launch", !.job = Len(jobs) + 1])
            ELSE /\ jobs' = [jobs EXCEPT
                      ![Row(r.url).id].status = "processing",
                      ![Row(r.url).id].retryCount = Row(r.url).retryCount + 1]
                 /\ Becomes(r, [r EXCEPT !.pc = "launch", !.job = Row(r.url).id])

C5_LaunchStep ==
    \A r \in BagToSet(reqs) :
      (Acted(r) /\ r.op = "submit" /\ r.pc = "launch")
      => /\ LaunchesOne(r.url, r.job)
         /\ Row(r.url).id = r.job
         /\ Answers(r, [NoResp EXCEPT !.code = 200, !.status = "processing",
                                      !.jobId = r.job, !.message = MsgStarted])
         /\ UNCHANGED <<jobs, recipes, nextRecipeId>>

C5_SubmitStartsExtraction ==
    [][C5_UpsertStep /\ C5_LaunchStep /\ SubmitReadsRow]_vars

\* a submit over a failed job has been answered, its pipeline still running
C5_Witness ==
    /\ answered.op = "submit" /\ answered.resp.message = MsgStarted
    /\ Row(answered.url).id = answered.resp.jobId
    /\ Row(answered.url).status = "processing"
    /\ Row(answered.url).retryCount = 1
    /\ Row(answered.url).errorMessage # NoMsg
    /\ InFlight(answered.url) = 1

\* a retry reads the row of its job id when it arrives
RetryReadsRow ==
    \A r \in BagToSet(reqs') :
      (Arrived(r) /\ r.op = "retry")
      => r.pc = "gotJob" /\ r.existing = Snapshot(FindById(jobs, r.jid))

\* C6: a retry that found its job in status failed sets it to processing, adds
\* exactly 1 to retryCount, starts exactly one pipeline for the job's URL and
\* answers processing with the same job id.
C6_UpdateStep ==
    \A r \in BagToSet(reqs) :
      ( /\ Acted(r) /\ r.op = "retry" /\ r.pc = "gotJob"
        /\ r.existing.status = "failed" )
      => /\ r.existing.id = r.jid /\ r.jid \in 1..Len(jobs)
         /\ jobs' = [jobs EXCEPT ![r.jid].status = "processing",
                                 ![r.jid].retryCount = jobs[r.jid].retryCount + 1]
         /\ \E r2 \in BagToSet(reqs') :
              /\ r2.op = "retry" /\ r2.pc = "launch" /\ r2.jid = r.jid
              /\ Becomes(r, r2)
         /\ UNCHANGED <<recipes, nextRecipeId, pipes>>

C6_LaunchStep ==
    \A r \in BagToSet(reqs) :
      (Acted(r) /\ r.op = "retry" /\ r.pc = "launch")
      => /\ LaunchesOne(jobs[r.jid].url, r.jid)
         /\ Answers(r, [NoResp EXCEPT !.code = 200, !.status = "processing",
                                      !.jobId = r.jid, !.message = MsgRetryStarted])
         /\ UNCHANGED <<jobs, recipes, nextRecipeId>>

C6_RetryOnFailed == [][C6_UpdateStep /\ C6_LaunchStep /\ RetryReadsRow]_vars

C6_Witness ==
    /\ answered.op = "retry" /\ answered.resp.code = 200
    /\ answered.resp.jobId = answered.jid
    /\ FindById(jobs, answered.jid).status = "processing"
    /\ FindById(jobs, answered.jid).retryCount = 1
    /\ FindById(jobs, answered.jid).errorMessage # NoMsg
    /\ Pipelines = 1

\* C7: a retry that found its job in status processing is answered with an
\* error, starts no pipeline and changes no job row; a retry on an unknown id
\* is answered not found and creates no row.
C7_RejectStep ==
    \A r \in BagToSet(reqs) :
      (Acted(r) /\ r.op = "retry" /\ r.pc = "gotJob")
      => /\ r.existing.status = "processing"
            => /\ Answers(r, [NoResp EXCEPT !.code = 400,
                                !.error = "Job is already processing"])
               /\ UNCHANGED <<jobs, recipes, nextRecipeId, pipes>>
         /\ r.existing.id = 0
            => /\ Answers(r, [NoResp EXCEPT !.code = 404,
                                !.error = "Scraping job not found"])
               /\ UNCHANGED <<jobs, recipes, nextRecipeId, pipes>>

C7_RetryRejected == [][C7_RejectStep /\ RetryReadsRow]_vars

C7_Witness ==
    /\ answered.op = "retry" /\ answered.resp.code = 400
    /\ FindById(jobs, answered.jid).status = "processing"
    /\ FindById(jobs, answered.jid).retryCount = 0
    /\ Pipelines = 1

\* C8: for every URL of a batch the bulk handler changes the job as a submit
\* would from the same state: a success job with an existing recipe and a
\* processing job are left alone and get no pipeline.
C8_BulkStep ==
    \A r \in BagToSet(reqs) :
      ( /\ Acted(r) /\ r.op = "bulk" /\ r.pc = "upsert"
        /\ \/ Row(r.urls[r.i]).status = "processing"
           \/ /\ Row(r.urls[r.i]).status = "success"
              /\ RecipeExists(recipes, Row(r.urls[r.i]).recipeId) )
      => /\ jobs' = jobs
         /\ \A r2 \in BagToSet(reqs') :
              CopiesIn(r2, reqs') > CopiesIn(r2, reqs) => r2.pc # "launch"

C8_BulkFollowsSubmit == [][C8_BulkStep]_vars

\* the entries of a batch that the loop does not skip, in input order
StringEntries(urls) == SelectSeq(urls, LAMBDA e : e # NonString)

OverLimit(a) == ~a.isArray \/ Len(a.urls) = 0 \/ Len(a.urls) > MaxBatch

\* C9: a batch that is not an array, is empty or has more than 10 entries is
\* rejected and no job is created or updated and no pipeline started; a batch
\* of 1 to 10 entries is accepted and answered with exactly one job id per
\* string entry, in input order.
C9_Answer ==
    /\ \A r \in BagToSet(reqs) :
         r.op = "bulk" => r.isArray /\ Len(r.urls) \in 1..MaxBatch
    /\ answered.op = "bulk" =>
         IF OverLimit(answered)
         THEN answered.resp.code = 400 /\ answered.resp.jobIds = <<>>
         ELSE /\ answered.resp.code = 200
              /\ Len(answered.resp.jobIds) = Len(StringEntries(answered.urls))
              /\ \A k \in 1..Len(answered.resp.jobIds) :
                   /\ answered.resp.jobIds[k] \in 1..Len(jobs)
                   /\ jobs[answered.resp.jobIds[k]].url
                        = StringEntries(answered.urls)[k]

\* a request that arrives and leaves no handler behind was answered at once
C9_RejectStep ==
    ( /\ nreq' = nreq + 1 /\ reqs' = reqs
      /\ answered'.op = "bulk" /\ OverLimit(answered') )
    => UNCHANGED <<jobs, recipes, nextRecipeId, pipes>>

C9_BulkLimit == [][C9_Answer' /\ C9_RejectStep]_vars

\* ten string URLs have been answered with ten job ids
C9_Witness ==
    /\ answered.op = "bulk" /\ Len(answered.urls) = MaxBatch
    /\ Len(answered.resp.jobIds) = MaxBatch

\* C10: there is at most one job row per URL string, and every job id that a
\* submit or a bulk call returns or holds for a URL is the id of that row.
C10_OneJobPerUrl ==
    /\ \A i, j \in 1..Len(jobs) : jobs[i].url = jobs[j].url => i = j
    /\ \A i \in 1..Len(jobs) : jobs[i].id = i
    /\ \A r \in BagToSet(reqs) :
         r.pc = "launch" =>
           /\ r.job \in 1..Len(jobs)
           /\ jobs[r.job].url = (IF r.op = "bulk" THEN r.urls[r.i] ELSE r.url)
    /\ (answered.op = "submit" /\ answered.resp.jobId # 0) =>
         /\ answered.resp.jobId \in 1..Len(jobs)
         /\ jobs[answered.resp.jobId].url = answered.url
    /\ (answered.op = "bulk" /\ answered.resp.code = 200) =>
         \A k \in 1..Len(answered.resp.jobIds) :
           /\ answered.resp.jobIds[k] \in 1..Len(jobs)
           /\ jobs[answered.resp.jobIds[k]].url = StringEntries(answered.urls)[k]

\* two calls found no row for the same URL; one has created the row and been
\* answered, the other has upserted over it and holds the same id
C10_Witness ==
    /\ answered.op \in {"submit", "bulk"}
    /\ \E r \in BagToSet(reqs) :
         /\ r.op = "submit" /\ r.pc = "launch" /\ r.existing.id = 0
         /\ jobs[r.job].retryCount = 1
         /\ Len(jobs) = 1
         /\ \/ answered.op = "submit" /\ answered.resp.jobId = r.job
            \/ answered.op = "bulk" /\ answered.resp.jobIds = <<r.job>>

\* the pipeline p has its candidate persisted and becomes q, which holds the
\* terminal write it will make / the pipeline p makes its last step
PipeAdvances(p, q) ==
    /\ p \in BagToSet(pipes) /\ p.pc = "scrape"
    /\ q \in BagToSet(pipes') /\ q.pc = "update"
    /\ pipes' = Step(p, q)

PipeEnds(p) == p \in BagToSet(pipes) /\ pipes' = pipes (-) One(p)

\* C11 (persistence): a pipeline with recipe data calls createRecipe; when the
\* recipe is created the pipeline goes on to write success with the id of
\* exactly that new recipe, when createRecipe throws it goes on to write
\* failed with the exception's message and no recipe is added.
C11_PersistStep ==
    \A p \in BagToSet(pipes), q \in BagToSet(pipes') :
      PipeAdvances(p, q) =>
        /\ jobs' = jobs
        /\ q.url = p.url /\ q.jobId = p.jobId
        /\ \/ /\ q.status = "success"
              /\ ~RecipeExists(recipes, q.recipeId)
              /\ recipes' = recipes \cup {[id |-> q.recipeId, sourceUrl |-> p.url]}
           \/ /\ q.status = "failed" /\ q.msg = MsgPersist
              /\ recipes' = recipes

\* C11 (terminal write): the write of a pipeline after createRecipe sets the
\* job to success with that recipe id, or to failed with the message of
\* createRecipe; a pipeline whose scrapeRecipe gave no data or threw sets the
\* job to failed.  Nothing else of the row changes and no recipe is added.
C11_WriteStep ==
    \A p \in BagToSet(pipes) :
      PipeEnds(p) =>
        /\ recipes' = recipes
        /\ p.jobId \in 1..Len(jobs)
        /\ \E m \in (IF p.pc = "update" THEN {MsgPersist} ELSE {MsgNoData, MsgScrape}) :
             jobs' = [jobs EXCEPT ![p.jobId] =
               IF p.pc = "update" /\ p.status = "success"
               THEN [@ EXCEPT !.status = "success", !.recipeId = p.recipeId]
               ELSE [@ EXCEPT !.status = "failed", !.errorMessage = m]]

\* C11: when a pipeline has an accepted candidate and createRecipe creates the
\* recipe, the job becomes success with the id of the recipe just created; when
\* createRecipe or another step of the pipeline throws, the job becomes failed
\* with the exception's message and that pipeline never sets it to success.
C11_PipelineCompletion == [][C11_PersistStep /\ C11_WriteStep]_vars

\* one job ended success on a recipe that is stored, another ended failed
\* because createRecipe threw
C11_Witness ==
    /\ pipes = EmptyBag
    /\ \E i, j \in 1..Len(jobs) :
         /\ jobs[i].status = "success" /\ RecipeExists(recipes, jobs[i].recipeId)
         /\ jobs[j].status = "failed" /\ jobs[j].errorMessage = MsgPersist

\* C14: retryCount is 0 on the row a call creates and never decreases on any
\* step of submit, submitBulk, retry or a pipeline; the terminal write of a
\* pipeline leaves every retryCount as it was.
C14_CountStep ==
    /\ Len(jobs') >= Len(jobs)
    /\ \A id \in 1..Len(jobs') :
         IF id <= Len(jobs)
         THEN jobs'[id].retryCount >= jobs[id].retryCount
         ELSE jobs'[id].retryCount = 0
    /\ \A p \in BagToSet(pipes) :
         PipeEnds(p) =>
           /\ Len(jobs') = Len(jobs)
           /\ \A id \in 1..Len(jobs) : jobs'[id].retryCount = jobs[id].retryCount

C14_RetryCountMonotone == [][C14_CountStep]_vars

\* a job that was processed again has reached a terminal status
C14_Witness ==
    \E id \in 1..Len(jobs) :
      /\ jobs[id].retryCount >= 1
      /\ jobs[id].status \in {"success", "failed"}
      /\ InFlight(jobs[id].url) = 0

\* ----------------------------------------------------- SpecLive: scheduling
\* Node runs every continuation whose awaited call has settled, and every
\* fetch, strategy and storage call settles: a pipeline that can take a step
\* takes it, and a handler that has upserted goes on to launch.
PipelineStep ==
    \/ \E p \in BagToSet(pipes), o \in Outcomes : ScrapeFailed(p, o)
    \/ \E p \in BagToSet(pipes), ok \in BOOLEAN : CreateDone(p, ok)
    \/ \E p \in BagToSet(pipes) : UpdateDone(p)

HandlerStep ==
    \/ \E r \in BagToSet(reqs) : SubmitLaunch(r)
    \/ \E r \in BagToSet(reqs) : RetryLaunch(r)
    \/ \E r \in BagToSet(reqs) : BulkLaunch(r)

SpecLive == Spec /\ WF_vars(PipelineStep) /\ WF_vars(HandlerStep)

\* C13 (no cancellation): a step of a request handler never removes a
\* pipeline; a pipeline at its terminal write leaves only by making it.
C13_NoCancelStep ==
    \A p \in BagToSet(pipes) :
      CopiesIn(p, pipes') < CopiesIn(p, pipes) =>
        /\ reqs' = reqs /\ nreq' = nreq /\ answered' = answered
        /\ p.pc = "update" => PipeEnds(p)

\* C13: every job that enters processing eventually is success or failed,
\* when pipelines and handlers that can step do step; and no request cancels
\* a launched pipeline.
C13_ReachesTerminal ==
    /\ [][C13_NoCancelStep]_vars
    /\ \A id \in 1..Cardinality(URLs) :
         (Len(jobs) >= id /\ jobs[id].status = "processing")
           ~> (Len(jobs) >= id /\ jobs[id].status \in {"success", "failed"})

\* a job that was processing while its pipeline ran is terminal now
C13_Witness ==
    \E id \in 1..Len(jobs) :
      /\ jobs[id].status \in {"success", "failed"}
      /\ jobs[id].retryCount >= 1
      /\ pipes = EmptyBag /\ reqs = EmptyBag

\* ------------------------------------------------- claims on scrapeRecipe
\* the stages that a run goes through when nothing is accepted
AllAttempted ==
    scrape.trace = (IF scrape.fetch = "ok" THEN Stages
                    ELSE SubSeq(Stages, LastLight + 1, Len(Stages)))

\* a stage has just run in this step
StageRan == scrape'.trace # scrape.trace

\* C12: when every stage of the lightweight and of the rendered tier has ended
\* without an accepted candidate, the job becomes failed with errorMessage
\* exactly "Could not extract recipe data" and the pipeline creates no recipe.
C12_Exhaustion ==
    (scrape.pc = "done" /\ scrape.last # "accepted") =>
      /\ AllAttempted /\ scrape.result = "null"
      /\ recipes = {} /\ nextRecipeId = 1
      /\ jobs[1].recipeId = 0
      /\ IF pipes = EmptyBag
         THEN /\ jobs[1].status = "failed"
              /\ jobs[1].errorMessage = "Could not extract recipe data"
         ELSE jobs[1].status = "processing"

\* all eight stages ran on a fetched document, none was accepted, and the job
\* has been written
C12_Witness ==
    /\ scrape.pc = "done" /\ scrape.fetch = "ok" /\ Len(scrape.trace) = Len(Stages)
    /\ scrape.last = "null" /\ scrape.candidate = NoCandidate
    /\ pipes = EmptyBag /\ jobs[1].status = "failed"

\* the validity gate as the specification states it
Gate(c) ==
    \/ c.title /\ (c.ingredients > 0 \/ c.instructions > 0)
    \/ c.ingredients > 0 /\ c.instructions > 0

\* C15: at every stage of both tiers a candidate is accepted iff it has a
\* title and an ingredient or an instruction, or has both an ingredient and an
\* instruction; so no recipe handed to persistence has both lists empty.
C15_ValidityGate ==
    /\ scrape.candidate.some => (scrape.last = "accepted" <=> Gate(scrape.candidate))
    /\ scrape.result = "data" =>
         scrape.data.ingredients > 0 \/ scrape.data.instructions > 0

\* C18: the stages run in the one fixed order (the three extractions of the
\* fetch tier, then the five layers), the run returns the candidate of the
\* first stage whose candidate passes the validity gate, and no stage starts
\* after that.
C18_StageStep ==
    /\ StageRan =>
         /\ scrape.pc \in {"light", "rendered"}
         /\ scrape'.trace = Append(scrape.trace, Stages[scrape.k])
         /\ Len(scrape.trace) > 0 =>
              Stages[scrape.k - 1] = scrape.trace[Len(scrape.trace)]
         /\ IF scrape'.candidate.some /\ Gate(scrape'.candidate)
            THEN /\ scrape'.pc = "done" /\ scrape'.result = "data"
                 /\ scrape'.data = [scrape'.candidate EXCEPT !.title = TRUE]
            ELSE /\ scrape'.result # "data"
                 /\ scrape'.k = scrape.k + 1
    /\ scrape.pc = "done" =>
         /\ ~StageRan
         /\ scrape'.result = scrape.result /\ scrape'.data = scrape.data

C18_FirstAcceptedWins == [][C18_StageStep]_vars

\* C19: a run whose lightweight tier returned an accepted candidate launches
\* no browser and opens no page; the rendered tier is entered only after the
\* fetch failed, the page was classified as an error page, or all three
\* lightweight extractions ran without an accepted candidate.
C19_LightFirst ==
    /\ (scrape.pc = "done" /\ scrape.k <= LastLight) =>
         /\ scrape.result = "data"
         /\ browser.launches = 0 /\ browser.opened = 0 /\ browser.open = 0
    /\ (scrape.k > LastLight \/ browser.launches > 0 \/ browser.opened > 0) =>
         /\ scrape.k > LastLight
         /\ \/ /\ scrape.fetch \in {"failed", "error page"}
               /\ scrape.trace = SubSeq(Stages, LastLight + 1, LastLight + Len(scrape.trace))
            \/ /\ scrape.fetch = "ok"
               /\ Len(scrape.trace) >= LastLight
               /\ scrape.trace = SubSeq(Stages, 1, Len(scrape.trace))

\* the lightweight tier accepted a candidate on a job that is now success,
\* with no browser ever started
C19_Witness ==
    /\ scrape.pc = "done" /\ scrape.k = LastLight /\ scrape.result = "data"
    /\ ~browser.up
    /\ pipes = EmptyBag /\ jobs[1].status = "success"

\* C20 (step): a failed fetch or an exception inside one strategy leaves the
\* job processing, and the next stage is still to run.
C20_FailureStep ==
    (scrape'.last = "threw" /\ scrape' # scrape) =>
      /\ jobs' = jobs /\ pipes' = pipes /\ jobs[1].status = "processing"
      /\ scrape.k < Len(Stages) =>
           /\ scrape'.pc \in {"light", "rendered"}
           /\ scrape'.k = (IF scrape.pc = "fetch" THEN LastLight + 1 ELSE scrape.k + 1)

\* C20 (failed job): a job is failed only after every stage was attempted
\* without an accepted candidate, or after createRecipe threw.
C20_FailedOnlyAfter ==
    jobs[1].status = "failed" =>
      \/ /\ jobs[1].errorMessage = MsgNoData
         /\ AllAttempted /\ scrape.last # "accepted"
      \/ /\ jobs[1].errorMessage = MsgPersist
         /\ scrape.result = "data"

\* C20: a failure of the lightweight fetch or an exception inside a single
\* strategy never by itself sets the job to failed; the job is failed only
\* after every stage was attempted without an accepted candidate, or after
\* persistence failed.
C20_LocalRecovery == [][C20_FailureStep /\ C20_FailedOnlyAfter']_vars

\* the fetch failed, the layers ran and the last one threw as well; only then
\* did the job fail
C20_Witness ==
    /\ scrape.fetch = "failed" /\ scrape.last = "threw" /\ scrape.pc = "done"
    /\ jobs[1].status = "failed" /\ jobs[1].errorMessage = MsgNoData

\* ---------------------------------------------- claims on the text helpers
\* the line contains the phrase as whole words: inside the line put between
\* two blanks, the phrase stands between two characters that are not of a word
WholeWords(text, phrase) ==
    LET line == <<" ">> \o toLowerCase(text) \o <<" ">>
    IN  \E i \in 1..Len(text) :
          /\ i + Len(phrase) + 1 <= Len(line)
          /\ SubSeq(line, i + 1, i + Len(phrase)) = phrase
          /\ ~IsWordChar(line[i]) /\ ~IsWordChar(line[i + Len(phrase) + 1])

HasNavPhrase(text) == \E phrase \in navPatterns : WholeWords(text, phrase)

CookingStep(text) ==
    \/ WholeWords(text, <<"c", "o", "o", "k">>)
    \/ WholeWords(text, <<"s", "t", "i", "r", "r", "i", "n", "g">>)

\* C16: in instruction and in non-instruction context isNavigationText
\* rejects a line that contains a navigation phrase as whole words, and does
\* not reject a cooking step that contains none.
C16_NavigationFilter ==
    (call.fn = "isNavigationText" /\ call.done) =>
      /\ HasNavPhrase(call.text) => call.rejected
      /\ (CookingStep(call.text) /\ ~HasNavPhrase(call.text)) => ~call.rejected

\* the runs of digits of a string, and the empty run
DigitRuns(t) ==
    {<<>>} \cup
    {SubSeq(t, r[1], r[2]) :
       r \in {x \in (1..Len(t)) \X (1..Len(t)) :
                x[1] <= x[2] /\ \A m \in x[1]..x[2] : IsDigit(t[m])}}

\* PT{h}H{m}M with either part optional
IsoDuration(hs, ms) ==
    <<"P", "T">> \o (IF hs = <<>> THEN <<>> ELSE hs \o <<"H">>)
                 \o (IF ms = <<>> THEN <<>> ELSE ms \o <<"M">>)

\* some digits are followed, after optional white space, by an hour or a
\* minute token
HasTimeValue(t) ==
    \E i \in 1..Len(t), j \in 1..Len(t) :
      /\ i < j /\ IsDigit(t[i]) /\ t[j] \in {"h", "H", "m", "M"}
      /\ \A k \in (i + 1)..(j - 1) : IsDigit(t[k]) \/ IsSpace(t[k])

\* C17: parseTime returns 60*h+m for PT{h}H{m}M with either part optional
\* ("PT1H30M" -> 90), 60*hours+minutes for text with hour and minute tokens
\* ("45 minutes" -> 45), and undefined, never 0 or another number, for every
\* input from which no hour or minute value parses.
C17_DurationParser ==
    (call.fn = "parseTime" /\ call.done) =>
      /\ call.text = Iso90 => call.minutes = Num(90)
      /\ call.text = Text45 => call.minutes = Num(45)
      /\ \A hs, ms \in DigitRuns(call.text) :
           (<<hs, ms>> # <<<<>>, <<>>>> /\ call.text = IsoDuration(hs, ms)) =>
             call.minutes = Num(60 * parseInt(hs) + parseInt(ms))
      /\ ~HasTimeValue(call.text) => call.minutes = Undefined

\* ------------------------------------------ claims on what strategies pick
\* C21: in the candidate of every strategy the instruction steps are numbered
\* 1..M in list order, without gap and without repeated number, also when
\* matched elements are skipped and when several elements match a selector.
C21_SequentialNumbers ==
    (call.done /\ call.field = "instructions") =>
      \A k \in 1..Len(call.out) : call.out[k].number = k

\* the selector has an element that the field takes (for the title, its
\* first element)
Yields(fn, field, doc, s) ==
    IF field = "title"
    THEN Len(doc[s]) > 0 /\ Accepts(fn, field, doc[s][1])
    ELSE \E i \in 1..Len(doc[s]) : Accepts(fn, field, doc[s][i])

\* C22: in the pattern-matching strategy of both tiers all values of a field
\* come from one selector, the first in priority order that yields an
\* accepted match; matches of later selectors are never added.
C22_FirstSelectorWins ==
    (call.done /\ call.fn \in PatternStrategies) =>
      \A k \in 1..Len(call.out) :
        /\ Yields(call.fn, call.field, call.doc, call.out[k].selector)
        /\ \A s \in 1..(call.out[k].selector - 1) :
             ~Yields(call.fn, call.field, call.doc, s)

\* ----------------------------------------------- claims on the browser
\* C23: every page opened for a rendered attempt is closed before the attempt
\* returns, on every exit path, a failed or timed-out navigation included;
\* hence no page remains open in a state where no pipeline is in flight.
C23_PagesClosed == browser.open = 0

\* C24: across any interleaving of jobs that share the service the browser is
\* launched at most once until closeBrowser is called: every initBrowser
\* call, also one that overlaps a launch in progress, obtains the same
\* instance, and no launched browser is left unreferenced.
C24_SingleLaunch ==
    browser.closes = 0 =>
      /\ browser.launches <= 1
      /\ \A c, d \in DOMAIN browser.calls :
           (browser.calls[c].pc = "returned" /\ browser.calls[d].pc = "returned")
             => browser.calls[c].got = browser.calls[d].got
      /\ browser.alive \subseteq {browser.instance}

\* ------------------------------------------------- claims on the poller
\* a step of the poller: it issues no request beyond the 30th and none once
\* a response said success or failed, and it leaves the tables, the handlers
\* and the pipelines as they are
C25_PollerStep ==
    /\ client'.requests <= maxAttempts
    /\ client.last \in {"success", "failed"} => client'.requests = client.requests
    /\ client' # client =>
         UNCHANGED <<jobs, recipes, nextRecipeId, reqs, pipes>>

\* C25: after a submit that returned processing the poller issues at most 30
\* status requests for the job and none after the first response with status
\* success or failed; its requests and its giving up do not change the job,
\* which still runs to success or failed.
C25_PollerBounded ==
    /\ [][C25_PollerStep]_vars
    /\ (Len(jobs) >= 1 /\ jobs[1].status = "processing")
         ~> (Len(jobs) >= 1 /\ jobs[1].status \in {"success", "failed"})

\* the poller gave up after 30 processing responses and the job, left to
\* itself, became terminal afterwards
C25_Witness ==
    /\ client.pc = "stopped" /\ client.attempts = maxAttempts
    /\ client.requests = maxAttempts /\ client.last = "processing"
    /\ jobs[1].status \in {"success", "failed"}

\* ------------------------------------- claims on resubmission and history
\* a step of a submit that read its job in status success without a recipe
\* to serve: the missing recipe sends it on to the upsert, the upsert sets the
\* row to processing and adds exactly 1 to retryCount, the launch starts
\* exactly one pipeline for the job
C26_ResubmitStep ==
    \A r \in BagToSet(reqs) :
      ( /\ Acted(r) /\ r.op = "submit" /\ r.existing.status = "success"
        /\ ~RecipeExists(recipes, r.existing.recipeId) )
      => CASE r.pc = "gotJob" /\ r.existing.recipeId # 0 ->
                /\ Becomes(r, [r EXCEPT !.pc = "upsert"])
                /\ UNCHANGED <<jobs, recipes, nextRecipeId, pipes>>
           [] r.pc = "upsert" \/ (r.pc = "gotJob" /\ r.existing.recipeId = 0) ->
                /\ Row(r.url).id = r.existing.id
                /\ jobs' = [jobs EXCEPT
                     ![r.existing.id].status = "processing",
                     ![r.existing.id].retryCount = jobs[r.existing.id].retryCount + 1]
                /\ Becomes(r, [r EXCEPT !.pc = "launch", !.job = r.existing.id])
                /\ UNCHANGED <<recipes, nextRecipeId, pipes>>
           [] r.pc = "launch" ->
                /\ r.job = r.existing.id
                /\ LaunchesOne(r.url, r.job)
                /\ Answers(r, [NoResp EXCEPT !.code = 200, !.status = "processing",
                                             !.jobId = r.job, !.message = MsgStarted])
                /\ UNCHANGED <<jobs, recipes, nextRecipeId>>
           [] OTHER -> FALSE

\* C26: a submit on a job in status success whose referenced recipe no longer
\* exists, or that references no recipe, is a resubmission: the job goes back
\* to processing, retryCount increases by exactly 1 and exactly one pipeline
\* is launched.
C26_ResubmitAfterDelete == [][C26_ResubmitStep /\ SubmitReadsRow]_vars

\* a submit that read a success job with a deleted recipe has set the job to
\* processing with retryCount 1 and is about to launch its pipeline
C26_Witness ==
    \E r \in BagToSet(reqs) :
      /\ r.op = "submit" /\ r.pc = "launch"
      /\ r.existing.status = "success" /\ r.existing.recipeId # 0
      /\ ~RecipeExists(recipes, r.existing.recipeId)
      /\ Row(r.url).status = "processing" /\ Row(r.url).retryCount = 1
      /\ Row(r.url).recipeId = r.existing.recipeId
      /\ Pipelines = 0

\* the job id is in status processing and nothing is going to finish it: no
\* pipeline of it is in flight and no handler is between its status write
\* and its launch
StuckIn(js, rs, ps, id) ==
    /\ id \in 1..Len(js) /\ js[id].status = "processing"
    /\ \A p \in BagToSet(ps) : p.jobId # id
    /\ \A r \in BagToSet(rs) : r.pc = "launch" => r.job # id

\* this step is the upsert of a bulk handler on the URL u
BulkUpserts(u) ==
    \E r \in BagToSet(reqs) :
      Acted(r) /\ r.op = "bulk" /\ r.pc = "upsert" /\ r.urls[r.i] = u

\* a submit or a retry that found the job processing is answered, with the
\* job's id or with an error, and that is all it does
C27_RefusedStep ==
    \A r \in BagToSet(reqs) :
      ( /\ Acted(r) /\ r.op \in {"submit", "retry"} /\ r.pc = "gotJob"
        /\ StuckIn(jobs, reqs, pipes, r.existing.id) )
      => /\ reqs' = reqs (-) One(r)
         /\ answered'.resp \in
              { Resp("processing", r.existing.id, MsgBeingScraped),
                ErrResp(400, "Job is already processing") }
         /\ UNCHANGED <<jobs, recipes, nextRecipeId, pipes>>

C27_StuckStep ==
    \A id \in 1..Len(jobs) :
      (StuckIn(jobs, reqs, pipes, id) /\ ~BulkUpserts(jobs[id].url))
      => jobs'[id] = jobs[id] /\ StuckIn(jobs', reqs', pipes', id)

\* C27: a job in status processing with no pipeline in flight, as a restart
\* in mid-extraction leaves it, is left unchanged by submit of its URL and by
\* retry of its id, which launch nothing; it stays processing until its URL
\* is passed to the bulk endpoint.
C27_StuckProcessing == [][C27_RefusedStep /\ C27_StuckStep]_vars

\* the stuck job has refused a submit of its URL and a retry of its id has
\* read it: it is as the restart left it
C27_Witness ==
    /\ StuckIn(jobs, reqs, pipes, 1) /\ jobs[1] \in StuckRows
    /\ answered.op = "submit" /\ answered.url = StuckUrl
    /\ answered.resp = Resp("processing", 1, MsgBeingScraped)
    /\ \E r \in BagToSet(reqs) :
         r.op = "retry" /\ r.jid = 1 /\ r.existing.status = "processing"

\* the copies of the elements of the bag b that satisfy Of
CountIn(b, Of(_)) ==
    BagCardinality([x \in {y \in BagToSet(b) : Of(y)} |-> b[x]])

\* retryCount + 1 of the job id, 0 while the job has no row
Attempts(js, id) == IF id \in 1..Len(js) THEN js[id].retryCount + 1 ELSE 0

\* the handlers that wrote the counter of job id and have not launched yet
Launchers(rs, id) == CountIn(rs, LAMBDA r : r.pc = "launch" /\ r.job = id)

\* the pipelines of job id that were launched and have not settled
Fresh(ps, id) == CountIn(ps, LAMBDA p : p.jobId = id /\ p.pc = "scrape")

\* the pipelines this step launches for job id: a step that launches settles
\* none, so every pipeline it adds at the start of its run is a launch
LaunchedNow(id) ==
    IF Fresh(pipes', id) > Fresh(pipes, id)
    THEN Fresh(pipes', id) - Fresh(pipes, id)
    ELSE 0

\* every step adds to retryCount + 1 of a job what it launches for the job
\* and what it leaves to launch: with no row, no handler and no pipeline at
\* the start, the pipelines ever launched for a job are retryCount + 1 minus
\* the handlers that stand between the counter write and the launch
C28_CountStep ==
    \A id \in 1..Len(jobs') :
      Attempts(jobs', id) - Attempts(jobs, id)
        = LaunchedNow(id) + (Launchers(reqs', id) - Launchers(reqs, id))

C28_Start == jobs = <<>> /\ reqs = EmptyBag /\ pipes = EmptyBag

\* C28: for every job, outside the step between the counter write and the
\* launch, the number of pipelines ever launched for the job equals
\* retryCount + 1 under any interleaving: the creation launches one at
\* retryCount 0 and every increment is followed by exactly one launch.
C28_LaunchesMatchRetryCount == C28_Start /\ [][C28_CountStep]_vars

\* two submits raced on a new URL: retryCount is 1, no handler is left to
\* launch, and both pipelines launched for the job are still running
C28_Witness ==
    /\ Len(jobs) = 1 /\ jobs[1].retryCount = 1
    /\ Launchers(reqs, 1) = 0 /\ reqs = EmptyBag /\ nreq = 2
    /\ Fresh(pipes, 1) = 2 /\ Pipelines = 2

\* a pipeline of job id ends in this step
Ends(id) ==
    \E p \in BagToSet(pipes) :
      p.jobId = id /\ CopiesIn(p, pipes') < CopiesIn(p, pipes)

\* a step never takes a job's errorMessage away, and changes it only when a
\* pipeline of the job ends with the failed write
C29_MessageStep ==
    \A id \in 1..Len(jobs) :
      /\ jobs[id].errorMessage # NoMsg => jobs'[id].errorMessage # NoMsg
      /\ jobs'[id].errorMessage # jobs[id].errorMessage
           => /\ jobs'[id].status = "failed" /\ Ends(id)
              /\ jobs'[id].errorMessage \in {MsgNoData, MsgScrape, MsgPersist}
      /\ (jobs[id].status = "failed" /\ jobs'[id].status = "processing")
           => jobs'[id].errorMessage = jobs[id].errorMessage
      /\ jobs'[id].status = "success"
           => jobs'[id].errorMessage = jobs[id].errorMessage

\* C29: no operation clears errorMessage: once a failed attempt has set it,
\* it is kept through resubmission and retry into processing and through a
\* later success, and only a later failure overwrites it; the status
\* endpoint can so return status success with the message of an earlier
\* failure.
C29_ErrorMessageKept == [][C29_MessageStep]_vars

\* the job failed, was run again and succeeded: the status endpoint answers
\* success together with the message of the failure
C29_Witness ==
    /\ Len(jobs) >= 1 /\ jobs[1].retryCount = 1
    /\ RecipeExists(recipes, jobs[1].recipeId)
    /\ StatusResponse(jobs[1]).status = "success"
    /\ StatusResponse(jobs[1]).errorMessage = MsgNoData

\* the recipe records of the source URL u
RecipesOf(rs, u) == {r \in rs : r.sourceUrl = u}

\* the ids handed out so far
Created == 1..(nextRecipeId - 1)

\* a pipeline whose extraction was accepted and whose createRecipe commits
\* adds one record under a new id, whatever the store holds for its URL
C30_CreateStep ==
    \A p \in BagToSet(pipes) :
      ( /\ p.pc = "scrape" /\ CopiesIn(p, pipes') < CopiesIn(p, pipes)
        /\ \E q \in BagToSet(pipes') :
             /\ q.pc = "update" /\ q.status = "success" /\ q.jobId = p.jobId
             /\ CopiesIn(q, pipes') > CopiesIn(q, pipes) )
      => /\ nextRecipeId' = nextRecipeId + 1
         /\ recipes' = recipes \cup {[id |-> nextRecipeId, sourceUrl |-> p.url]}
         /\ RecipesOf(recipes', p.url) # RecipesOf(recipes, p.url)
         /\ Cardinality(RecipesOf(recipes', p.url))
              = Cardinality(RecipesOf(recipes, p.url)) + 1
         /\ CopiesIn([p EXCEPT !.pc = "update", !.status = "success",
                               !.recipeId = nextRecipeId], pipes') > 0

\* the success write stores the recipe of the pipeline that makes it
C30_ReferenceStep ==
    \A p \in BagToSet(pipes) :
      ( /\ p.pc = "update" /\ p.status = "success"
        /\ CopiesIn(p, pipes') < CopiesIn(p, pipes) )
      => /\ jobs'[p.jobId].recipeId = p.recipeId
         /\ jobs'[p.jobId].status = "success"
         /\ recipes' = recipes

\* a step of a handler or of a pipeline removes no recipe record, and only
\* the success write changes the reference of a job
C30_KeepStep ==
    /\ (reqs' # reqs \/ pipes' # pipes \/ jobs' # jobs) => recipes \subseteq recipes'
    /\ \A id \in 1..Len(jobs) :
         jobs'[id].recipeId # jobs[id].recipeId
           => \E p \in BagToSet(pipes) :
                /\ p.jobId = id /\ p.pc = "update" /\ p.status = "success"
                /\ pipes' = pipes (-) One(p)

\* C30: every pipeline completion with an accepted candidate creates a new
\* recipe record and nothing looks up or removes an earlier recipe of the
\* same source URL: k successful extractions of a URL leave k records, and
\* the job references the one written by the pipeline that completed last.
C30_RecipePerExtraction ==
    [][C30_CreateStep /\ C30_ReferenceStep /\ C30_KeepStep]_vars

\* two extractions of one URL succeeded: two records of that URL are stored
\* and its job refers to one of them
C30_Witness ==
    /\ Len(jobs) = 1 /\ jobs[1].status = "success" /\ Pipelines = 0
    /\ nextRecipeId = 3
    /\ Cardinality(RecipesOf(recipes, jobs[1].url)) = 2
    /\ RecipeExists(recipes, jobs[1].recipeId)

====
